---- MODULE Spec2Model ----
(***************************************************************************)
(* A model of the Roughtime client of Merovius/notary: the tag-length-     *)
(* value wire codec (src/internal/wire), the message schema and the        *)
(* response verifier (src/roughtime.go).                                   *)
(*                                                                         *)
(* Memory is modelled at the byte level.  A Go slice is a descriptor       *)
(* [off, len, cap] into a backing array `mem`; re-slicing follows Go's     *)
(* rules (s[lo:hi] needs 0 <= lo <= hi <= cap(s)), and a violated bound is *)
(* a run-time panic.  A uint32 is kept as the pair <<high 16 bits, low 16  *)
(* bits>> so that all 32 bits take part in comparisons.                    *)
(***************************************************************************)
EXTENDS Integers, Sequences, FiniteSets, TLC

VARIABLES
    mem,      \* the backing array of the buffer handed to Decode
    msg,      \* the slice handed to Decode: [off, len, cap]
    pc,       \* position of the Decode call
    d,        \* the DecodeState: hdr, body, i, n
    err,      \* the named result `err` of Decode (*d.err)
    reqs,     \* the reader's cursor requests so far: [tag, at]
    got,      \* what the cursor handed to the reader: [tag, idx, val]
    fcalled,  \* whether the reader f has been invoked
    arg,      \* the value an operation of the schema is applied to
    out,      \* what that operation returned
    enc,      \* the EncodeState a writer is working on, and its calls so far
    net,      \* the socket and the locals of a FetchRoughtime call
    run,      \* the locals of main and of the chain verification it calls
    nest      \* the cursor of a nested message, while its reader runs

vars == <<mem, msg, pc, d, err, reqs, got, fcalled, arg, out, enc,
          net, run, nest>>

----------------------------------------------------------------------------
(* Bounds of the model. *)

MaxN == 3          \* fields in a generated frame
MaxReq == 3        \* cursor requests one reader makes
MaxShort == 9      \* length of the truncated buffers

----------------------------------------------------------------------------
(* uint32 as <<hi, lo>>, 16 bits each. *)

W(v) == <<v \div 65536, v % 65536>>
N(w) == w[1] * 65536 + w[2]
WLess(a, b) == a[1] < b[1] \/ (a[1] = b[1] /\ a[2] < b[2])
WLeq(a, b) == a = b \/ WLess(a, b)
WByte(w, k) ==
    CASE k = 0 -> w[2] % 256
      [] k = 1 -> w[2] \div 256
      [] k = 2 -> w[1] % 256
      [] OTHER -> w[1] \div 256

(* The tags: src/roughtime.go, lines 21-36. *)
SIG  == <<71, 18771>>       \* 0x00474953
NONC == <<17230, 20302>>    \* 0x434e4f4e
DELE == <<17740, 17732>>    \* 0x454c4544
PATH == <<18516, 16720>>    \* 0x48544150
RADI == <<18756, 16722>>    \* 0x49444152
PUBK == <<19266, 21840>>    \* 0x4b425550
MIDP == <<20548, 18765>>    \* 0x5044494d
SREP == <<20549, 21075>>    \* 0x50455253
MAXT == <<21592, 16717>>    \* 0x5458414d
ROOT == <<21583, 20306>>    \* 0x544f4f52
CERT == <<21586, 17731>>    \* 0x54524543
MINT == <<21582, 18765>>    \* 0x544e494d
INDX == <<22596, 20041>>    \* 0x58444e49
PAD  == <<65348, 16720>>    \* 0xff444150

----------------------------------------------------------------------------
(* Go slices over the backing array. *)

NilSlice == [off |-> 0, len |-> 0, cap |-> 0]

\* s[lo:] is legal iff lo <= len(s)
CanFrom(s, lo) == 0 <= lo /\ lo <= s.len
From(s, lo) == [off |-> s.off + lo, len |-> s.len - lo, cap |-> s.cap - lo]

\* s[lo:hi] is legal iff lo <= hi <= cap(s)
CanSlice(s, lo, hi) == 0 <= lo /\ lo <= hi /\ hi <= s.cap
Slice(s, lo, hi) == [off |-> s.off + lo, len |-> hi - lo, cap |-> s.cap - lo]

\* s[lo:hi:max] is legal iff lo <= hi <= max <= cap(s)
CanSlice3(s, lo, hi, max) == 0 <= lo /\ lo <= hi /\ hi <= max /\ max <= s.cap
Slice3(s, lo, hi, max) == [off |-> s.off + lo, len |-> hi - lo, cap |-> max - lo]

\* binary.LittleEndian.Uint32(s): panics unless len(s) >= 4
CanUint32(s) == s.len >= 4
Uint32(m, s) ==
    <<m[s.off + 3] + 256 * m[s.off + 4], m[s.off + 1] + 256 * m[s.off + 2]>>

\* the bytes a slice shows
BytesOf(m, s) == [k \in 1..s.len |-> m[s.off + k]]

----------------------------------------------------------------------------
(* The errors of src/internal/wire/decoder.go, lines 24-34. *)

errMsgTooShort    == "message too short"
errTooManyFields  == "too many fields"
errFieldMissing   == "missing field"
errInvalidMessage == "invalid message"
errInvalidField   == "invalid field"
errFieldTMissing  == "field %v missing"
NoErr == "nil"

ZeroState == [hdr |-> NilSlice, body |-> NilSlice, i |-> 0, n |-> W(0)]

\* The loop of SetMessage over i = 1 .. n-1.  On entry to iteration i the
\* running t and o are the tag and the offset of field i-1 (t0 and 0 for
\* field 0), so an iteration is decided by the header alone.  The loop stops
\* at the first iteration that aborts, or whose reads would leave the slice.
HeaderRead(b, n, i) ==
    /\ CanFrom(b, i * 4) /\ CanUint32(From(b, i * 4))
    /\ CanFrom(b, n * 4 + i * 4) /\ CanUint32(From(b, n * 4 + i * 4))

\* HeaderBad with the tag test weakened to t2 < t: equal tags pass
HeaderBadEqualTags(m, b, n, i, t0) ==
    LET o2 == Uint32(m, From(b, i * 4))
        t2 == Uint32(m, From(b, n * 4 + i * 4))
        t == IF i = 1 THEN t0 ELSE Uint32(m, From(b, n * 4 + (i - 1) * 4))
        o == IF i = 1 THEN W(0) ELSE Uint32(m, From(b, (i - 1) * 4))
    IN WLess(t2, t) \/ WLess(o2, o) \/ ~WLess(o2, W(b.len))

HeaderBad(m, b, n, i, t0) ==
    LET o2 == Uint32(m, From(b, i * 4))
        t2 == Uint32(m, From(b, n * 4 + i * 4))
        t == IF i = 1 THEN t0 ELSE Uint32(m, From(b, n * 4 + (i - 1) * 4))
        o == IF i = 1 THEN W(0) ELSE Uint32(m, From(b, (i - 1) * 4))
    IN WLeq(t2, t) \/ WLess(o2, o) \/ ~WLess(o2, W(b.len))

HeaderStops(m, b, n, i, t0) == ~HeaderRead(b, n, i) \/ HeaderBad(m, b, n, i, t0)

\* "ok", "abort" or "panic"
HeaderLoop(m, b, n, t0) ==
    IF \A i \in 1..(n - 1) : ~HeaderStops(m, b, n, i, t0) THEN "ok"
    ELSE LET f == CHOOSE i \in 1..(n - 1) :
                    /\ HeaderStops(m, b, n, i, t0)
                    /\ \A j \in 1..(i - 1) : ~HeaderStops(m, b, n, j, t0)
         IN IF HeaderRead(b, n, f) THEN "abort" ELSE "panic"

\* SetMessage: [st, err, d] with st one of "ok", "abort", "panic".
SetMessage(m, b) ==
    IF b.len < 4
    THEN [st |-> "abort", err |-> errMsgTooShort, d |-> ZeroState]
    ELSE LET n == Uint32(m, b) IN
    IF WLess(W(b.len \div 8), n)
    THEN [st |-> "abort", err |-> errMsgTooShort, d |-> [ZeroState EXCEPT !.n = n]]
    ELSE LET nn == N(n) IN
    IF ~(CanFrom(b, 4 * nn) /\ CanUint32(From(b, 4 * nn)))
    THEN [st |-> "panic", err |-> NoErr, d |-> [ZeroState EXCEPT !.n = n]]
    ELSE LET loop == HeaderLoop(m, b, nn, Uint32(m, From(b, 4 * nn))) IN
    IF loop = "abort"
    THEN [st |-> "abort", err |-> errInvalidMessage, d |-> [ZeroState EXCEPT !.n = n]]
    ELSE IF loop = "panic" \/ ~CanSlice3(b, 0, 8 * nn, 8 * nn) \/ ~CanFrom(b, 8 * nn)
    THEN [st |-> "panic", err |-> NoErr, d |-> [ZeroState EXCEPT !.n = n]]
    ELSE [st |-> "ok", err |-> NoErr,
          d |-> [hdr |-> Slice3(b, 0, 8 * nn, 8 * nn), body |-> From(b, 8 * nn),
                 i |-> 0, n |-> n]]

\* field without the `if i > 0`: the start of field 0 is read from the
\* first header word, which holds the field count
fieldStartFromHeader(m, st, i) ==
    LET n == N(st.n)
        tag == Uint32(m, From(st.hdr, n * 4 + i * 4))
        start == Uint32(m, From(st.hdr, i * 4))
        end == IF i + 1 < n THEN Uint32(m, From(st.hdr, (i + 1) * 4))
                            ELSE W(st.body.len)
    IN IF WLess(end, start) \/ (N(end) - N(start)) % 4 # 0
       THEN [st |-> "abort", err |-> errInvalidField, tag |-> tag, val |-> NilSlice]
       ELSE IF ~CanSlice(st.body, N(start), N(end))
       THEN [st |-> "panic", err |-> NoErr, tag |-> tag, val |-> NilSlice]
       ELSE [st |-> "ok", err |-> NoErr, tag |-> tag,
             val |-> Slice(st.body, N(start), N(end))]

\* field(i): [st, err, tag, val]; the check precedes the re-slice of body.
field(m, st, i) ==
    LET n == N(st.n)
        tag == Uint32(m, From(st.hdr, n * 4 + i * 4))
        start == IF i > 0 THEN Uint32(m, From(st.hdr, i * 4)) ELSE W(0)
        end == IF i + 1 < n THEN Uint32(m, From(st.hdr, (i + 1) * 4))
                            ELSE W(st.body.len)
    IN IF WLess(end, start) \/ (N(end) - N(start)) % 4 # 0
       THEN [st |-> "abort", err |-> errInvalidField, tag |-> tag, val |-> NilSlice]
       ELSE IF ~CanSlice(st.body, N(start), N(end))
       THEN [st |-> "panic", err |-> NoErr, tag |-> tag, val |-> NilSlice]
       ELSE [st |-> "ok", err |-> NoErr, tag |-> tag,
             val |-> Slice(st.body, N(start), N(end))]

\* The loop of Bytes from the cursor on: field(i) is evaluated for every
\* field the loop visits; a field with a tag above t is passed over
\* (continue), the first other field ends the loop.  [st, err, i, val]
BytesPassed(m, st, t, i) ==
    field(m, st, i).st = "ok" /\ WLess(t, field(m, st, i).tag)

BytesLoop(m, st, t) ==
    IF \A i \in st.i..(N(st.n) - 1) : BytesPassed(m, st, t, i)
    THEN [st |-> "abort", err |-> errFieldMissing,
          i |-> IF st.i < N(st.n) THEN N(st.n) ELSE st.i, val |-> NilSlice]
    ELSE LET i == CHOOSE k \in st.i..(N(st.n) - 1) :
                    /\ ~BytesPassed(m, st, t, k)
                    /\ \A j \in st.i..(k - 1) : BytesPassed(m, st, t, j)
             f == field(m, st, i)
         IN IF f.st # "ok"
            THEN [st |-> f.st, err |-> f.err, i |-> i, val |-> NilSlice]
            ELSE IF WLess(f.tag, t)
            THEN [st |-> "abort", err |-> errFieldTMissing, i |-> i, val |-> NilSlice]
            ELSE [st |-> "ok", err |-> NoErr, i |-> i + 1, val |-> f.val]

\* Bytes(t, p) on the cursor st.
Bytes(m, st, t) == BytesLoop(m, st, t)

----------------------------------------------------------------------------
(* The buffers Decode is run on. *)

TagVals == {SIG, PATH, PAD}
OffVals == {0, 3, 4, 65536}
BodyLens == {0, 4, 8}
Slacks == {0, 8}

\* the largest field count the protocol allows (src/roughtime.go, line 268)
MaxFields == 128

BodyByte(k) == 1 + (k % 200)

HeaderLen(n) == IF n = 0 THEN 4 ELSE 8 * n

\* word w of the header of a frame: count, n-1 offsets, n tags
HeaderWord(n, offs, tags, w) ==
    IF w = 0 THEN W(n) ELSE IF w < n THEN W(offs[w]) ELSE tags[w - n + 1]

\* a frame of n fields with the given offsets and tags, a body of bl bytes,
\* and `slack` further bytes of the backing array behind it
FrameMem(n, offs, tags, bl, slack) ==
    [k \in 1..(HeaderLen(n) + bl + slack) |->
        IF k <= HeaderLen(n)
        THEN WByte(HeaderWord(n, offs, tags, (k - 1) \div 4), (k - 1) % 4)
        ELSE IF k <= HeaderLen(n) + bl THEN BodyByte(k - HeaderLen(n))
        ELSE 238]

\* tags 1, 2, 3, ... and offsets 0: the plainest header of n fields
PlainTags(n) == [i \in 1..n |-> W(i)]
PlainOffs(n) == [i \in 1..n |-> 0]

InitFrame ==
    \E n \in 0..MaxN, bl \in BodyLens, slack \in Slacks :
    \E offs \in [1..(n - 1) -> OffVals], tags \in [1..n -> TagVals] :
        /\ mem = FrameMem(n, offs, tags, bl, slack)
        /\ msg = [off |-> 0, len |-> HeaderLen(n) + bl,
                  cap |-> HeaderLen(n) + bl + slack]

\* a buffer cut short: the first L bytes of a plain frame declaring n fields
InitShort ==
    \E L \in 0..MaxShort, n \in 0..(MaxN + 1) :
        /\ mem = [k \in 1..L |-> FrameMem(n, PlainOffs(n), PlainTags(n), MaxShort, 0)[k]]
        /\ msg = [off |-> 0, len |-> L, cap |-> L]

\* a header declaring one field more than the protocol allows
InitMany ==
    \E n \in {MaxFields, MaxFields + 1} :
        /\ mem = FrameMem(n, PlainOffs(n), PlainTags(n), 4, 0)
        /\ msg = [off |-> 0, len |-> 8 * n + 4, cap |-> 8 * n + 4]

Init ==
    /\ (InitFrame \/ InitShort \/ InitMany)
    /\ pc = "start"
    /\ d = ZeroState
    /\ err = NoErr
    /\ reqs = <<>>
    /\ got = <<>>
    /\ fcalled = FALSE
    /\ enc = [st |-> "none"]
    /\ net = [st |-> "none"]
    /\ run = [st |-> "none"]
    /\ nest = [st |-> "none"]
    /\ arg = [type |-> "none"]
    /\ out = [st |-> "none"]

----------------------------------------------------------------------------
(* Decode(msg, f): SetMessage, then the reader f with its cursor requests. *)

\* Decode up to the call of f
DecodeStart ==
    /\ pc = "start"
    /\ LET r == SetMessage(mem, msg) IN
        /\ pc' = CASE r.st = "ok" -> "reading"
                   [] r.st = "abort" -> "aborted"
                   [] OTHER -> "panicked"
        /\ d' = r.d
        /\ err' = r.err
        /\ fcalled' = (r.st = "ok")
    /\ UNCHANGED <<mem, msg, reqs, got, arg, out, enc, net, run, nest>>

\* the reader calls st.Bytes(t, &p)
ReaderBytes(t) ==
    /\ pc = "reading"
    /\ Len(reqs) < MaxReq
    /\ LET r == Bytes(mem, d, t) IN
        /\ pc' = CASE r.st = "ok" -> "reading"
                   [] r.st = "abort" -> "aborted"
                   [] OTHER -> "panicked"
        /\ d' = [d EXCEPT !.i = r.i]
        /\ err' = r.err
        /\ got' = IF r.st = "ok" THEN Append(got, [tag |-> t, idx |-> r.i - 1, val |-> r.val]) ELSE got
    /\ reqs' = Append(reqs, [tag |-> t, at |-> d.i])
    /\ UNCHANGED <<mem, msg, fcalled, arg, out, enc, net, run, nest>>

\* the reader returns and Decode returns nil
ReaderReturn ==
    /\ pc = "reading"
    /\ pc' = "returned"
    /\ UNCHANGED <<mem, msg, d, err, reqs, got, fcalled, arg, out, enc, net, run, nest>>

ReqTags == TagVals \cup {W(1), W(2), W(3)}

Next ==
    \/ DecodeStart
    \/ \E t \in ReqTags : ReaderBytes(t)
    \/ ReaderReturn

Spec == Init /\ [][Next]_vars

----------------------------------------------------------------------------
(* What the input buffer says, read off the bytes. *)

\* the field count the buffer declares
DeclN == IF msg.len >= 4 THEN Uint32(mem, msg) ELSE W(0)

\* the buffer holds the 8*n bytes of header it declares
HdrComplete == msg.len >= 4 /\ ~WLess(W(msg.len \div 8), DeclN)

NumTags == N(DeclN)
TagAt(i) == Uint32(mem, From(msg, 4 * NumTags + 4 * i))
OffAt(i) == IF i = 0 THEN W(0) ELSE Uint32(mem, From(msg, 4 * i))
BodyLen == msg.len - 8 * NumTags
EndAt(i) == IF i + 1 < NumTags THEN OffAt(i + 1) ELSE W(BodyLen)

TagsAscending == \A i \in 1..(NumTags - 1) : WLess(TagAt(i - 1), TagAt(i))
OffsInHeaderRange ==
    \A i \in 1..(NumTags - 1) :
        ~WLess(OffAt(i), OffAt(i - 1)) /\ WLess(OffAt(i), W(msg.len))
FieldAligned(i) ==
    /\ WLeq(OffAt(i), EndAt(i))
    /\ (N(EndAt(i)) - N(OffAt(i))) % 4 = 0

\* n fields, strictly increasing tags, non-decreasing offsets, every field
\* length a multiple of 4
WellFormed ==
    /\ HdrComplete
    /\ TagsAscending
    /\ \A i \in 1..(NumTags - 1) : ~WLess(OffAt(i), OffAt(i - 1))
    /\ \A i \in 0..(NumTags - 1) : FieldAligned(i)

\* the reader asks for the tags of the header, in header order
InOrder ==
    /\ Len(reqs) <= NumTags
    /\ \A k \in 1..Len(reqs) : reqs[k].tag = TagAt(k - 1)

Terminated == pc \in {"returned", "aborted", "panicked"}
MissingErrs == {errFieldMissing, errFieldTMissing}

----------------------------------------------------------------------------
(* C3: Decode ends by returning a result or an error, never by a panic     *)
(* that escapes to its caller.                                             *)
C3_NoPanic == pc # "panicked"

(* C4: every payload the cursor hands to the reader is a sub-range of the  *)
(* body of the message: 0 <= start <= end <= len(body).                    *)
C4_OffsetsInRange ==
    \A k \in 1..Len(got) :
        /\ d.body.off <= got[k].val.off
        /\ got[k].val.off + got[k].val.len <= d.body.off + d.body.len

(* C5: a header with two adjacent tags out of strict order makes Decode    *)
(* return the invalid-message error, and the reader is never invoked.      *)
Unsorted ==
    /\ HdrComplete
    /\ \E i \in 1..(NumTags - 1) : WLeq(TagAt(i), TagAt(i - 1))

C5_OrderingRejection ==
    Unsorted =>
        /\ ~fcalled
        /\ reqs = <<>>
        /\ pc \in {"start", "aborted"}
        /\ pc = "aborted" => err = errInvalidMessage

C5_Witness ==
    /\ Unsorted
    /\ OffsInHeaderRange
    /\ pc = "aborted"
    /\ err = errInvalidMessage

(* C6: a message with a field whose computed length is not a multiple of 4 *)
(* makes Decode return the invalid-field error, whatever the reader asks   *)
(* for.                                                                    *)
Misaligned ==
    \E i \in 0..(NumTags - 1) : (N(EndAt(i)) - N(OffAt(i))) % 4 # 0

C6_AlignmentRejection ==
    (fcalled /\ Misaligned /\ Terminated) =>
        (pc = "aborted" /\ err = errInvalidField)

(* C7: an accepted message has at most 128 fields; a header declaring more *)
(* is rejected before the reader runs.                                     *)
C7_FieldCountBound ==
    /\ fcalled => ~WLess(W(MaxFields), d.n)
    /\ (WLess(W(MaxFields), DeclN) /\ pc # "start") =>
            (pc = "aborted" /\ ~fcalled)

(* C8: when a field with tag t lies at or after the cursor, Bytes(t) hands *)
(* out that field's payload, having skipped the smaller tags before it,    *)
(* and leaves the cursor just past it.  Stated for well-formed frames,     *)
(* where no malformed field can end the scan first.                        *)
C8_BytesFindsTag ==
    (WellFormed /\ reqs # <<>>) =>
        LET r == reqs[Len(reqs)] IN
        \A j \in r.at..(NumTags - 1) :
            TagAt(j) = r.tag =>
                /\ pc \in {"reading", "returned"}
                /\ got # <<>>
                /\ got[Len(got)].tag = r.tag
                /\ got[Len(got)].val.off = msg.off + 8 * NumTags + N(OffAt(j))
                /\ got[Len(got)].val.len = N(EndAt(j)) - N(OffAt(j))
                /\ d.i = j + 1

(* C9: a request for a tag the message does not hold, or for a tag not     *)
(* above one already handed out, aborts with a missing-field error; the    *)
(* payload handed out always belongs to a field with the requested tag.    *)
C9_StrictReader ==
    /\ \A k \in 1..Len(got) : TagAt(got[k].idx) = got[k].tag
    /\ reqs # <<>> =>
        LET r == reqs[Len(reqs)] IN
        (\/ \A j \in 0..(NumTags - 1) : TagAt(j) # r.tag
         \/ \E k \in 1..(Len(reqs) - 1) : WLeq(r.tag, reqs[k].tag))
            => (pc = "aborted" /\ err \in MissingErrs)

(* C10: on a well-formed frame a reader asking for the tags in header      *)
(* order is handed body[off_i : off_{i+1}] for field i and Decode returns  *)
(* nil; 00 00 00 00 decodes to no field; a buffer shorter than 4 bytes or  *)
(* than 8*num_tags is rejected.                                            *)
C10_WellFormedDecoding ==
    /\ (WellFormed /\ pc # "start") => fcalled
    /\ (WellFormed /\ InOrder) =>
        /\ pc \in {"start", "reading", "returned"}
        /\ err = NoErr
        /\ Len(got) = Len(reqs)
        /\ \A k \in 1..Len(got) :
            /\ got[k].tag = TagAt(k - 1)
            /\ got[k].val.off = msg.off + 8 * NumTags + N(OffAt(k - 1))
            /\ got[k].val.len = N(EndAt(k - 1)) - N(OffAt(k - 1))
    /\ (msg.len = 4 /\ DeclN = W(0) /\ reqs = <<>>) =>
            (pc \in {"start", "reading", "returned"} /\ err = NoErr)
    /\ (~HdrComplete /\ pc # "start") =>
            (pc = "aborted" /\ err = errMsgTooShort /\ ~fcalled)

C10_Witness ==
    /\ WellFormed
    /\ InOrder
    /\ pc = "returned"
    /\ NumTags >= 2
    /\ Len(got) = NumTags
    /\ \E k \in 1..Len(got) : got[k].val.len > 0


----------------------------------------------------------------------------
(* The encoder: src/internal/wire/encoder.go.  An EncodeState is the       *)
(* record [mem, msg, n, i, t, hdr, body, buf, st]: mem is the backing      *)
(* array, buf the slice the last Bytes call returned, st is "panic" once a *)
(* call has panicked (every later call is then never reached).             *)
(*                                                                         *)
(* An operator that reads an argument many times binds it first, as the    *)
(* one element of a set (CHOOSE r \in {On(x) : x \in {x0}} : TRUE is On   *)
(* of the value of x0), so that the argument is computed once.             *)

\* the size of the buffer Encode allocates
EncBufLen == 1024

\* uint64 as four 16-bit limbs, most significant first
U64Byte(v, k) ==
    IF k % 2 = 0 THEN v[4 - (k \div 2)] % 256 ELSE v[4 - (k \div 2)] \div 256
U64Less(a, b) ==
    \E k \in 1..4 : a[k] < b[k] /\ \A j \in 1..(k - 1) : a[j] = b[j]

\* binary.LittleEndian: the bytes of a uint32 and of a uint64, and Uint64
LE32(w) == [k \in 1..4 |-> WByte(w, k - 1)]
LE64(v) == [k \in 1..8 |-> U64Byte(v, k - 1)]
CanUint64(s) == s.len >= 8
Uint64(m, s) ==
    <<m[s.off + 7] + 256 * m[s.off + 8], m[s.off + 5] + 256 * m[s.off + 6],
      m[s.off + 3] + 256 * m[s.off + 4], m[s.off + 1] + 256 * m[s.off + 2]>>

\* copy(dst, src) into the array m: min(len(dst), len(src)) bytes
Copy(m0, dst0, src0) ==
    LET On(m, dst, src) ==
            LET c == IF dst.len < Len(src) THEN dst.len ELSE Len(src)
            IN [k \in 1..Len(m) |->
                    IF k > dst.off /\ k <= dst.off + c THEN src[k - dst.off]
                                                       ELSE m[k]]
    IN CHOOSE r \in {On(m, dst, src) : m \in {m0}, dst \in {dst0}, src \in {src0}} : TRUE

NewEncodeState(m, b) ==
    [mem |-> m, msg |-> b, n |-> 0, i |-> 0, t |-> W(0),
     hdr |-> NilSlice, body |-> NilSlice, buf |-> NilSlice, st |-> "ok"]

EncPanic(e) == [e EXCEPT !.st = "panic"]

EncNTags(e0, n) ==
    LET On(e) ==
        IF e.st # "ok" THEN e
        ELSE IF n = 0
        THEN IF ~CanSlice(e.msg, 0, 4) \/ ~CanSlice3(e.msg, 4, 4, e.msg.len)
             THEN EncPanic(e)
             ELSE [e EXCEPT !.hdr = Slice(e.msg, 0, 4),
                            !.body = Slice3(e.msg, 4, 4, e.msg.len),
                            !.n = 0, !.i = 0]
        ELSE IF \/ ~CanUint32(e.msg)
                \/ ~CanSlice3(e.msg, 0, 8 * n, 8 * n)
                \/ ~CanSlice3(e.msg, 8 * n, 8 * n, e.msg.len)
             THEN EncPanic(e)
             ELSE [e EXCEPT !.mem = Copy(e.mem, e.msg, LE32(W(n))),
                            !.hdr = Slice3(e.msg, 0, 8 * n, 8 * n),
                            !.body = Slice3(e.msg, 8 * n, 8 * n, e.msg.len),
                            !.n = n, !.i = 0]
    IN CHOOSE r \in {On(e) : e \in {e0}} : TRUE

EncLength(e) == e.hdr.len + e.body.len

\* Bytes(t, n): the returned slice is left in e.buf
EncBytes(e0, t, n0) ==
    LET On(e, n) ==
        IF e.st # "ok" THEN e
        ELSE IF n < 0 \/ n % 4 # 0 THEN EncPanic(e)
        ELSE IF WLeq(t, e.t) THEN EncPanic(e)
        ELSE LET offOk == e.i = 0 \/ (CanFrom(e.hdr, 4 * e.i)
                                       /\ CanUint32(From(e.hdr, 4 * e.i)))
                 tagOk == CanFrom(e.hdr, 4 * e.n + 4 * e.i)
                          /\ CanUint32(From(e.hdr, 4 * e.n + 4 * e.i))
                 m1 == IF e.i > 0
                       THEN Copy(e.mem, From(e.hdr, 4 * e.i), LE32(W(e.body.len)))
                       ELSE e.mem
                 m2 == Copy(m1, From(e.hdr, 4 * e.n + 4 * e.i), LE32(t))
                 l == e.body.len
             IN IF ~offOk \/ ~tagOk \/ ~CanSlice(e.body, l, l + n)
                THEN EncPanic(e)
                ELSE [e EXCEPT !.mem = m2, !.t = t, !.i = e.i + 1,
                               !.buf = Slice(e.body, l, l + n),
                               !.body = Slice(e.body, 0, l + n)]
    IN CHOOSE r \in {On(e, n) : e \in {e0}, n \in {n0}} : TRUE

\* Bytes32/Bytes64/Uint32/Uint64: Bytes, then the value written into buf
EncPut(e, t, n, bytes) ==
    LET On(e1) == IF e1.st # "ok" THEN e1
                  ELSE [e1 EXCEPT !.mem = Copy(e1.mem, e1.buf, bytes)]
    IN CHOOSE r \in {On(e1) : e1 \in {EncBytes(e, t, n)}} : TRUE

EncBytes32(e, t, v) == EncPut(e, t, 32, v)
EncBytes64(e, t, v) == EncPut(e, t, 64, v)
EncUint32(e, t, v) == EncPut(e, t, 4, LE32(v))
EncUint64(e, t, v) == EncPut(e, t, 8, LE64(v))

\* Message(t, f): f runs on a fresh state whose msg is e.body (EncSub; sub
\* is that state after f), then e.Bytes(t, e.Length()) with the length of e
\* itself
EncSub(e0) ==
    LET On(e) == IF e.st # "ok" THEN e ELSE NewEncodeState(e.mem, e.body)
    IN CHOOSE r \in {On(e) : e \in {e0}} : TRUE

EncMessage(e0, t, sub0) ==
    LET On(e, sub) ==
        IF e.st # "ok" THEN e
        ELSE IF sub.st # "ok" THEN EncPanic(e)
        ELSE EncBytes([e EXCEPT !.mem = sub.mem], t, EncLength(e))
    IN CHOOSE r \in {On(e, sub) : e \in {e0}, sub \in {sub0}} : TRUE

\* A time.Time at or after the epoch is [us, ns]: whole microseconds since
\* the epoch (uint64) and the nanoseconds below one microsecond.  A
\* time.Duration is kept the same way.  UnixNano()/1000 and v/Microsecond
\* drop ns; the conversion to uint32 keeps the low 32 bits.
EncTime(e, t, v) == EncUint64(e, t, v.us)
EncDuration(e, t, v) == EncUint32(e, t, <<v.us[3], v.us[4]>>)

\* Encode(f): the state f is run on, and the result [st, mem, msg] once f
\* has left the state e
EncodeStart ==
    NewEncodeState([k \in 1..EncBufLen |-> 0],
                   [off |-> 0, len |-> EncBufLen, cap |-> EncBufLen])

Encode(e0) ==
    LET On(e) ==
        IF e.st # "ok" \/ ~CanSlice(e.msg, 0, EncLength(e))
        THEN [st |-> "panic", mem |-> <<>>, msg |-> NilSlice]
        ELSE [st |-> "ok", mem |-> e.mem, msg |-> Slice(e.msg, 0, EncLength(e))]
    IN CHOOSE r \in {On(e) : e \in {e0}} : TRUE


----------------------------------------------------------------------------
(* The typed cursor methods of DecodeState (src/internal/wire/decoder.go,  *)
(* lines 128-209) as used by the schema.  x = [c, v] is a cursor           *)
(* c = [st, err, d] together with the struct v whose fields the methods    *)
(* store into (the pointers p of the Go methods): field f of v is the      *)
(* target.  Abort unwinds to Decode, so a method on a cursor that is not   *)
(* "ok" is never reached and leaves its target alone.                      *)

errInvalidTimestamp == "invalid timestamp"
errInvalidDuration  == "invalid duration"
errInvalidPath      == "invalid PATH"

Abort(x, e) == [x EXCEPT !.c.st = "abort", !.c.err = e]

\* d.Bytes(t, &buf): [x, buf]
DecBytes(m, x0, t) ==
    LET Res(x, r) ==
            [x |-> [x EXCEPT !.c = [st |-> r.st, err |-> r.err,
                                    d |-> [x.c.d EXCEPT !.i = r.i]]],
             buf |-> r.val]
        On(x) == IF x.c.st # "ok" THEN [x |-> x, buf |-> NilSlice]
                 ELSE CHOOSE y \in {Res(x, r) : r \in {Bytes(m, x.c.d, t)}} : TRUE
    IN CHOOSE y \in {On(x) : x \in {x0}} : TRUE

\* Bytes, then the length check of Uint32, Uint64, Bytes32 and Bytes64
DecFixed(m, x0, t, n) ==
    LET On(b) == IF b.x.c.st = "ok" /\ b.buf.len # n
                 THEN [x |-> Abort(b.x, errInvalidField), buf |-> NilSlice]
                 ELSE b
    IN CHOOSE y \in {On(b) : b \in {DecBytes(m, x0, t)}} : TRUE

Zeros(n) == [k \in 1..n |-> 0]
ZeroTime == [us |-> <<0, 0, 0, 0>>, ns |-> 0]

DecBytes32(m, x0, t, f) ==
    LET On(b) == IF b.x.c.st # "ok" THEN b.x
                 ELSE [b.x EXCEPT !.v[f] = BytesOf(m, b.buf)]
    IN CHOOSE y \in {On(b) : b \in {DecFixed(m, x0, t, 32)}} : TRUE

DecBytes64(m, x0, t, f) ==
    LET On(b) == IF b.x.c.st # "ok" THEN b.x
                 ELSE [b.x EXCEPT !.v[f] = BytesOf(m, b.buf)]
    IN CHOOSE y \in {On(b) : b \in {DecFixed(m, x0, t, 64)}} : TRUE

DecUint32(m, x0, t, f) ==
    LET On(b) == IF b.x.c.st # "ok" THEN b.x
                 ELSE [b.x EXCEPT !.v[f] = Uint32(m, b.buf)]
    IN CHOOSE y \in {On(b) : b \in {DecFixed(m, x0, t, 4)}} : TRUE

DecUint64(m, x0, t, f) ==
    LET On(b) == IF b.x.c.st # "ok" THEN b.x
                 ELSE [b.x EXCEPT !.v[f] = Uint64(m, b.buf)]
    IN CHOOSE y \in {On(b) : b \in {DecFixed(m, x0, t, 8)}} : TRUE

\* Time: Uint64, the check of bit 63, and time.Unix(v/1e6, (v%1e6)*1e3),
\* which is v whole microseconds
DecTime(m, x0, t, f) ==
    LET On(b) ==
            IF b.x.c.st # "ok" THEN b.x
            ELSE IF Uint64(m, b.buf)[1] >= 32768
            THEN Abort(b.x, errInvalidTimestamp)
            ELSE [b.x EXCEPT !.v[f] = [us |-> Uint64(m, b.buf), ns |-> 0]]
    IN CHOOSE y \in {On(b) : b \in {DecFixed(m, x0, t, 8)}} : TRUE

\* Duration: Uint32; time.Duration(v) * time.Microsecond never overflows
\* an int64 for a 32-bit v, so the errInvalidDuration branch is dead
DecDuration(m, x0, t, f) ==
    LET On(b) ==
            IF b.x.c.st # "ok" THEN b.x
            ELSE [b.x EXCEPT !.v[f] = [us |-> <<0, 0, Uint32(m, b.buf)[1],
                                                Uint32(m, b.buf)[2]>>,
                                       ns |-> 0]]
    IN CHOOSE y \in {On(b) : b \in {DecFixed(m, x0, t, 4)}} : TRUE

\* Message(t, f), up to the call of f: the cursor f is run on (SetMessage
\* on the field) with field f of v as its struct; the message's own cursor
\* waits in parent
DecMessage(m, x0, t, f) ==
    LET Sub(b, s) == [c |-> [st |-> s.st, err |-> s.err, d |-> s.d],
                      v |-> b.x.v[f], parent |-> b.x]
        On(b) ==
            IF b.x.c.st # "ok" THEN [c |-> b.x.c, v |-> b.x.v[f], parent |-> b.x]
            ELSE IF b.buf.len < 4
            THEN [c |-> Abort(b.x, errInvalidMessage).c, v |-> b.x.v[f], parent |-> b.x]
            ELSE CHOOSE y \in {Sub(b, s) : s \in {SetMessage(m, b.buf)}} : TRUE
    IN CHOOSE y \in {On(b) : b \in {DecBytes(m, x0, t)}} : TRUE

\* Message(t, f), once f has left the cursor s: an Abort inside f ends the
\* decoding of the whole message
DecMessageDone(s0, f) ==
    LET On(s) == IF s.c.st # "ok"
                 THEN [s.parent EXCEPT !.c.st = s.c.st, !.c.err = s.c.err]
                 ELSE [s.parent EXCEPT !.v[f] = s.v]
    IN CHOOSE y \in {On(s) : s \in {s0}} : TRUE

\* Decode(msg, f): the cursor f is run on, with the struct z it fills, and
\* the result [st, err, v] once f has left x
DecodeCursor(m, b, z) ==
    LET On(s) == [c |-> [st |-> s.st, err |-> s.err, d |-> s.d], v |-> z]
    IN CHOOSE y \in {On(s) : s \in {SetMessage(m, b)}} : TRUE

Decode(x0) ==
    LET On(x) == [st |-> x.c.st, err |-> x.c.err, v |-> x.v]
    IN CHOOSE y \in {On(x) : x \in {x0}} : TRUE

----------------------------------------------------------------------------
(* The message schema: src/roughtime.go, lines 38-141. *)

ZeroRequest == [Nonce |-> Zeros(64)]

RequestDecode(m, x) == DecBytes64(m, x, NONC, "Nonce")

\* RequestEncode with a padding of 940 bytes
RequestEncodeShortPad(e, r) ==
    EncBytes(EncBytes64(EncNTags(e, 2), NONC, r.Nonce), PAD, 940)

RequestEncode(e, r) ==
    EncBytes(EncBytes64(EncNTags(e, 2), NONC, r.Nonce), PAD, 944)

ZeroSignedResponse == [Root |-> Zeros(64), Midpoint |-> ZeroTime, Radius |-> ZeroTime]

SignedResponseDecode(m, x) ==
    DecBytes64(m, DecTime(m, DecDuration(m, x, RADI, "Radius"), MIDP, "Midpoint"),
               ROOT, "Root")

SignedResponseEncode(e, r) ==
    EncDuration(EncTime(EncBytes64(EncNTags(e, 3), ROOT, r.Root),
                        MIDP, r.Midpoint),
                RADI, r.Radius)

ZeroDelegation == [Min |-> ZeroTime, Max |-> ZeroTime, PublicKey |-> Zeros(32)]

DelegationDecode(m, x) ==
    DecTime(m, DecTime(m, DecBytes32(m, x, PUBK, "PublicKey"), MINT, "Min"),
            MAXT, "Max")

DelegationEncode(e, r) ==
    EncBytes32(EncTime(EncTime(EncNTags(e, 3), MINT, r.Min), MAXT, r.Max),
               PUBK, r.PublicKey)

ZeroCertificate == [Signature |-> Zeros(64), Delegation |-> ZeroDelegation]

CertificateDecode(m, x) ==
    DecMessageDone(
        DelegationDecode(m, DecMessage(m, DecBytes64(m, x, SIG, "Signature"),
                                       DELE, "Delegation")),
        "Delegation")

CertificateEncode(e, r) ==
    LET e1 == EncBytes64(EncNTags(e, 2), SIG, r.Signature)
    IN EncMessage(e1, DELE, DelegationEncode(EncSub(e1), r.Delegation))

ZeroResponse ==
    [SignedResponse |-> ZeroSignedResponse, Signature |-> Zeros(64),
     Index |-> W(0), Path |-> <<>>, Certificate |-> ZeroCertificate]

\* decodePath: the PATH payload cut into 64-byte nodes
ResponseDecodePath(m, x0) ==
    LET On(b) ==
            IF b.x.c.st # "ok" THEN b.x
            ELSE IF b.buf.len % 64 # 0 THEN Abort(b.x, errInvalidPath)
            ELSE [b.x EXCEPT !.v.Path =
                      [j \in 1..(b.buf.len \div 64) |->
                          BytesOf(m, Slice(b.buf, 64 * (j - 1), 64 * j))]]
    IN CHOOSE y \in {On(b) : b \in {DecBytes(m, x0, PATH)}} : TRUE

ResponseDecode(m, x) ==
    DecUint32(m,
        DecMessageDone(
            CertificateDecode(m,
                DecMessage(m,
                    DecMessageDone(
                        SignedResponseDecode(m,
                            DecMessage(m,
                                ResponseDecodePath(m, DecBytes64(m, x, SIG, "Signature")),
                                SREP, "SignedResponse")),
                        "SignedResponse"),
                    CERT, "Certificate")),
            "Certificate"),
        INDX, "Index")

ResponseEncode(e, r) ==
    LET e1 == EncBytes64(EncNTags(e, 4), SIG, r.Signature)
        e2 == EncMessage(e1, SREP, SignedResponseEncode(EncSub(e1), r.SignedResponse))
        e3 == EncMessage(e2, CERT, CertificateEncode(EncSub(e2), r.Certificate))
    IN EncUint32(e3, INDX, r.Index)

\* the encode and decode methods by message type
EncodeOf(a) ==
    CASE a.type = "Request" -> Encode(RequestEncode(EncodeStart, a.m))
      [] a.type = "SignedResponse" -> Encode(SignedResponseEncode(EncodeStart, a.m))
      [] a.type = "Delegation" -> Encode(DelegationEncode(EncodeStart, a.m))
      [] a.type = "Certificate" -> Encode(CertificateEncode(EncodeStart, a.m))
      [] OTHER -> Encode(ResponseEncode(EncodeStart, a.m))

DecodeOf(type, m, b) ==
    CASE type = "Request" -> Decode(RequestDecode(m, DecodeCursor(m, b, ZeroRequest)))
      [] type = "SignedResponse" ->
            Decode(SignedResponseDecode(m, DecodeCursor(m, b, ZeroSignedResponse)))
      [] type = "Delegation" ->
            Decode(DelegationDecode(m, DecodeCursor(m, b, ZeroDelegation)))
      [] type = "Certificate" ->
            Decode(CertificateDecode(m, DecodeCursor(m, b, ZeroCertificate)))
      [] OTHER -> Decode(ResponseDecode(m, DecodeCursor(m, b, ZeroResponse)))

----------------------------------------------------------------------------
(* Encode a message of the schema and decode the bytes again. *)

Fill(n, b) == [k \in 1..n |-> b]
Ramp(n) == [k \in 1..n |-> k]

NonceVals == {Fill(64, 0), Fill(64, 17), Ramp(64)}
SigVals == {Fill(64, 5), Ramp(64)}
KeyVals == {Fill(32, 9), Ramp(32)}
\* whole microseconds: the epoch and a day of 2026
TimeVals == {[us |-> <<0, 0, 0, 0>>, ns |-> 0], [us |-> <<6, 24000, 100, 7>>, ns |-> 0]}
\* whole microseconds below 2^32: nothing and one second
RadiusVals == {[us |-> <<0, 0, 0, 0>>, ns |-> 0], [us |-> <<0, 0, 15, 16960>>, ns |-> 0]}
PathVals == {<<>>, <<Fill(64, 3)>>}

Requests == [Nonce : NonceVals]
SignedResponses == [Root : SigVals, Midpoint : TimeVals, Radius : RadiusVals]
Delegations == [Min : TimeVals, Max : TimeVals, PublicKey : KeyVals]
Certificates == [Signature : SigVals, Delegation : Delegations]
Responses ==
    [SignedResponse : {s \in SignedResponses : s.Root = Ramp(64)},
     Signature : SigVals, Index : {W(0), W(1)}, Path : PathVals,
     Certificate : {c \in Certificates : c.Signature = Ramp(64)
                                         /\ c.Delegation.PublicKey = Ramp(32)
                                         /\ c.Delegation.Min = c.Delegation.Max}]

Messages ==
    [type : {"Request"}, m : Requests]
    \cup [type : {"SignedResponse"}, m : SignedResponses]
    \cup [type : {"Delegation"}, m : Delegations]
    \cup [type : {"Certificate"}, m : Certificates]
    \cup [type : {"Response"}, m : Responses]

InitRT ==
    /\ arg \in Messages
    /\ out = [st |-> "none"]
    /\ pc = "start"
    /\ mem = <<>>
    /\ msg = NilSlice
    /\ d = ZeroState
    /\ err = NoErr
    /\ reqs = <<>>
    /\ got = <<>>
    /\ fcalled = FALSE
    /\ enc = [st |-> "none"]
    /\ net = [st |-> "none"]
    /\ run = [st |-> "none"]
    /\ nest = [st |-> "none"]

\* b := wire.Encode(m.encode)
EncodeMessage ==
    /\ pc = "start"
    /\ \E r \in {EncodeOf(arg)} :
        /\ pc' = IF r.st = "ok" THEN "encoded" ELSE "panicked"
        /\ mem' = r.mem
        /\ msg' = r.msg
    /\ UNCHANGED <<d, err, reqs, got, fcalled, arg, out, enc, net, run, nest>>

\* err := wire.Decode(b, m2.decode)
DecodeMessage ==
    /\ pc = "encoded"
    /\ \E r \in {DecodeOf(arg.type, mem, msg)} :
        /\ pc' = CASE r.st = "ok" -> "returned"
                   [] r.st = "abort" -> "aborted"
                   [] OTHER -> "panicked"
        /\ err' = r.err
        /\ out' = [st |-> r.st, v |-> r.v]
    /\ UNCHANGED <<mem, msg, d, reqs, got, fcalled, arg, enc, net, run, nest>>

NextRT ==
    \/ EncodeMessage
    \/ DecodeMessage

SpecRT == InitRT /\ [][NextRT]_vars

\* C1: for every valid message m of the five types, Decode(Encode(m))
\* yields a message equal to m, field by field: encoding does not panic,
\* decoding returns no error, and the decoded value is m.
C1_RoundTrip ==
    /\ pc # "panicked"
    /\ pc # "aborted"
    /\ pc = "returned" => out.v = arg.m

----------------------------------------------------------------------------
(* The collaborators of the verifier.  SHA-512 and Ed25519 are library     *)
(* code; they stand here as a checksum that tells apart the inputs of this *)
(* model, and as the signature scheme in which the valid signature of a    *)
(* text under a key is a digest of both.                                   *)

\* the weighted byte sum of x[lo..hi], by halves
RECURSIVE ByteSum(_, _, _)
ByteSum(x, lo, hi) ==
    IF lo > hi THEN 0
    ELSE IF lo = hi THEN ((x[lo] + 1) * ((lo * 7919 + 13) % 65521)) % 16777213
    ELSE LET mid == (lo + hi) \div 2
         IN (ByteSum(x, lo, mid) + ByteSum(x, mid + 1, hi)) % 16777213

\* sha512.Sum512(x)
Sha512(x0) ==
    LET Sum(x) == (ByteSum(x, 1, Len(x)) + 40009 * Len(x)) % 16777213
        On(a) == [k \in 1..64 |->
                    CASE k % 3 = 1 -> (a + 41 * (k - 1)) % 256
                      [] k % 3 = 2 -> ((a \div 256) + 41 * (k - 2)) % 256
                      [] OTHER -> ((a \div 65536) + 41 * (k - 3)) % 256]
    IN CHOOSE r \in {On(a) : a \in {Sum(x) : x \in {x0}}} : TRUE

\* ed25519.Verify(pub, text, sig)
Ed25519Sign(pub, text) == Sha512(<<237>> \o pub \o text)
Ed25519Verify(pub, text, sig) == sig = Ed25519Sign(pub, text)

contextCertificate ==
    <<82, 111, 117, 103, 104, 84, 105, 109, 101, 32, 118, 49, 32, 100, 101,
      108, 101, 103, 97, 116, 105, 111, 110, 32, 115, 105, 103, 110, 97,
      116, 117, 114, 101, 45, 45, 0>>

contextSignedResponse ==
    <<82, 111, 117, 103, 104, 84, 105, 109, 101, 32, 118, 49, 32, 114, 101,
      115, 112, 111, 110, 115, 101, 32, 115, 105, 103, 110, 97, 116, 117,
      114, 101, 0>>

----------------------------------------------------------------------------
(* ParseResponse: src/roughtime.go, lines 143-191. *)

errVerification == "verification error"
errInvalidMidpoint == "invalid midpoint"

\* h.Sum(r[:]) appends the digest to the full slice r[:] and returns the
\* new slice, which is dropped; the array r that is returned stays zero
\* the bytes hashLeaf and hashNode write to the hasher
hashLeafInput(b) == <<0>> \o b
hashNodeInput(l, r) == <<0>> \o l \o r

hashLeaf(b) ==
    LET r == Zeros(64)
        sum == r \o Sha512(hashLeafInput(b))
    IN r

hashNode(l, r) ==
    LET res == Zeros(64)
        sum == res \o Sha512(hashNodeInput(l, r))
    IN res

\* the loop over the path: idx&1 picks the side, idx >>= 1
RECURSIVE MerkleLoop(_, _, _)
MerkleLoop(hash, idx, path) ==
    IF Len(path) = 0 THEN hash
    ELSE MerkleLoop(IF idx[2] % 2 = 0 THEN hashNode(hash, path[1])
                                       ELSE hashNode(path[1], hash),
                    <<idx[1] \div 2, (idx[1] % 2) * 32768 + idx[2] \div 2>>,
                    Tail(path))

\* time.Time.Before and After
TimeBefore(a, b) == U64Less(a.us, b.us) \/ (a.us = b.us /\ a.ns < b.ns)
TimeAfter(a, b) == TimeBefore(b, a)

\* ParseResponse(resp, nonce, root): [st, err, m, r]; root is never read
ParseResponse(mm, resp, nonce, root) ==
    LET On(dec) ==
        LET res == dec.v
            mp == res.SignedResponse.Midpoint
        IN IF dec.st = "abort"
           THEN [st |-> "err", err |-> dec.err, m |-> ZeroTime, r |-> ZeroTime]
           ELSE IF dec.st = "panic" \/ Len(nonce) # 64
           THEN [st |-> "panic", err |-> NoErr, m |-> ZeroTime, r |-> ZeroTime]
           ELSE IF MerkleLoop(hashLeaf(nonce), res.Index, res.Path)
                       # res.SignedResponse.Root
           THEN [st |-> "err", err |-> errVerification, m |-> ZeroTime, r |-> ZeroTime]
           ELSE IF \/ TimeBefore(mp, res.Certificate.Delegation.Min)
                   \/ TimeAfter(mp, res.Certificate.Delegation.Max)
           THEN [st |-> "err", err |-> errInvalidMidpoint, m |-> ZeroTime, r |-> ZeroTime]
           ELSE [st |-> "ok", err |-> NoErr, m |-> mp, r |-> res.SignedResponse.Radius]
    IN CHOOSE y \in {On(dec) :
            dec \in {Decode(ResponseDecode(mm, DecodeCursor(mm, resp, ZeroResponse)))}} : TRUE

----------------------------------------------------------------------------
(* The replies ParseResponse is run on: frames in the layout the schema    *)
(* decodes, as a server (or someone in its place) would send them.         *)

RECURSIVE PayloadStart(_, _)
PayloadStart(fields, i) ==
    IF i <= 1 THEN 0 ELSE PayloadStart(fields, i - 1) + Len(fields[i - 1].v)

\* the frame of the fields <<[t, v], ...>> (at least one): count, offsets,
\* tags, payloads
Frame(fields0) ==
    LET Starts(fields) == [i \in 1..(Len(fields) + 1) |-> PayloadStart(fields, i)]
        Field(starts, p) == CHOOSE j \in 1..(Len(starts) - 1) :
                                starts[j] < p /\ p <= starts[j + 1]
        Payload(fields, starts, p, i) == fields[i].v[p - starts[i]]
        On(fields, starts, n) ==
            [k \in 1..(8 * n + starts[n + 1]) |->
                IF k <= 4 THEN LE32(W(n))[k]
                ELSE IF k <= 4 * n
                THEN LE32(W(starts[((k - 1) \div 4) + 1]))[((k - 1) % 4) + 1]
                ELSE IF k <= 8 * n
                THEN LE32(fields[((k - 1) \div 4) - n + 1].t)[((k - 1) % 4) + 1]
                ELSE CHOOSE y \in {Payload(fields, starts, k - 8 * n, i) :
                                       i \in {Field(starts, k - 8 * n)}} : TRUE]
    IN CHOOSE r \in {On(fields, Starts(fields), Len(fields)) : fields \in {fields0}} : TRUE

Flatten(path) ==
    [k \in 1..(64 * Len(path)) |-> path[((k - 1) \div 64) + 1][((k - 1) % 64) + 1]]

\* one bit of the first byte flipped
Altered(b) == [b EXCEPT ![1] = IF b[1] % 2 = 0 THEN b[1] + 1 ELSE b[1] - 1]

\* the Merkle root of the protocol: leaves under 0x00, nodes under 0x01
RECURSIVE MerkleRoot(_, _, _)
MerkleRoot(h, idx, path) ==
    IF Len(path) = 0 THEN h
    ELSE MerkleRoot(IF idx[2] % 2 = 0 THEN Sha512(<<1>> \o h \o path[1])
                                       ELSE Sha512(<<1>> \o path[1] \o h),
                    <<idx[1] \div 2, (idx[1] % 2) * 32768 + idx[2] \div 2>>,
                    Tail(path))
MerkleRootOf(nonce, idx, path) == MerkleRoot(Sha512(<<0>> \o nonce), idx, path)

RootKey == Ramp(32)
ServerKey == Fill(32, 9)
MinT == <<6, 24000, 100, 7>>
MaxT == <<6, 24000, 200, 7>>
MidpVals == {<<6, 24000, 50, 7>>, MinT, <<6, 24000, 150, 7>>, MaxT,
             <<6, 24000, 250, 7>>}
ReplyNonces == {[k \in 1..64 |-> k - 1], Fill(64, 17)}

DeleOf == Frame(<<[t |-> PUBK, v |-> ServerKey], [t |-> MINT, v |-> LE64(MinT)],
                  [t |-> MAXT, v |-> LE64(MaxT)]>>)
SrepOf(root, midp) ==
    Frame(<<[t |-> RADI, v |-> LE32(<<15, 16960>>)], [t |-> MIDP, v |-> LE64(midp)],
            [t |-> ROOT, v |-> root]>>)
ReplyOf(sig, path, srep, certsig, idx) ==
    Frame(<<[t |-> SIG, v |-> sig], [t |-> PATH, v |-> Flatten(path)],
            [t |-> SREP, v |-> srep],
            [t |-> CERT, v |-> Frame(<<[t |-> SIG, v |-> certsig],
                                       [t |-> DELE, v |-> DeleOf]>>)],
            [t |-> INDX, v |-> LE32(idx)]>>)

InitParse ==
    \E nonce \in ReplyNonces, path \in PathVals, idx \in {W(0), W(1)},
       midp \in MidpVals, rootKind \in {"tree", "zero", "other"},
       sigOk \in BOOLEAN, certOk \in BOOLEAN :
      \E root \in {CASE rootKind = "tree" -> MerkleRootOf(nonce, idx, path)
                       [] rootKind = "zero" -> Zeros(64)
                       [] OTHER -> Fill(64, 5)} :
      \E srep \in {SrepOf(root, midp)} :
      \E s \in {Ed25519Sign(ServerKey, contextSignedResponse \o srep)},
         cs \in {Ed25519Sign(RootKey, contextCertificate \o DeleOf)} :
      \E sig \in {IF sigOk THEN s ELSE Altered(s)},
         certsig \in {IF certOk THEN cs ELSE Altered(cs)} :
         /\ mem = ReplyOf(sig, path, srep, certsig, idx)
         /\ msg = [off |-> 0, len |-> Len(mem), cap |-> Len(mem)]
         /\ arg = [type |-> "reply", nonce |-> nonce, root |-> RootKey,
                   sig |-> sig, certsig |-> certsig, pubk |-> ServerKey,
                   srep |-> srep, dele |-> DeleOf, rootHash |-> root,
                   path |-> path, index |-> idx,
                   mint |-> MinT, midp |-> midp, maxt |-> MaxT]
    /\ out = [st |-> "none"]
    /\ pc = "start"
    /\ d = ZeroState
    /\ err = NoErr
    /\ reqs = <<>>
    /\ got = <<>>
    /\ fcalled = FALSE
    /\ enc = [st |-> "none"]
    /\ net = [st |-> "none"]
    /\ run = [st |-> "none"]
    /\ nest = [st |-> "none"]

\* m, r, err := ParseResponse(resp, nonce, root)
ParseReply ==
    /\ pc = "start"
    /\ \E r \in {ParseResponse(mem, msg, arg.nonce, arg.root)} :
        /\ pc' = IF r.st = "panic" THEN "panicked" ELSE "returned"
        /\ err' = r.err
        /\ out' = r
    /\ UNCHANGED <<mem, msg, d, reqs, got, fcalled, arg, enc, net, run, nest>>

NextParse == ParseReply

SpecParse == InitParse /\ [][NextParse]_vars

\* what the reply holds
CertSigValid == Ed25519Verify(arg.root, contextCertificate \o arg.dele, arg.certsig)
RespSigValid == Ed25519Verify(arg.pubk, contextSignedResponse \o arg.srep, arg.sig)
RootMatches == MerkleRootOf(arg.nonce, arg.index, arg.path) = arg.rootHash
MidpointInWindow == ~U64Less(arg.midp, arg.mint) /\ ~U64Less(arg.maxt, arg.midp)
Accepted == pc = "returned" /\ out.st = "ok"

\* C2: ParseResponse returns a (midpoint, radius) result only if the
\* delegation signature verifies under the root key, the response signature
\* verifies under the delegated key, the Merkle root reconstructed from the
\* nonce, INDX and PATH equals ROOT, and MINT <= MIDP <= MAXT.
C2_AcceptsOnlyVerified ==
    Accepted => /\ CertSigValid
                /\ RespSigValid
                /\ RootMatches
                /\ MidpointInWindow

----------------------------------------------------------------------------
(* Encode(f) with a writer f that makes its calls one at a time            *)
(* (src/internal/wire/encoder.go, and the writers of TestEncode in         *)
(* src/unnamed/part_004).  enc = [e, called, n, log, up]: e is the         *)
(* EncodeState the writer holds, called says whether it has called NTags   *)
(* on it, n is the count it passed, log the fields it has asked for, in    *)
(* order, and up the suspended writers of the enclosing messages.          *)

\* how many fields a writer emits at most, and how deep messages nest
MaxEmit == 2
MaxDepth == 1

\* the counts, tags and lengths the writers use
NTagVals == 0..MaxEmit
EncTagVals == {W(0), W(1), W(2)}
EncLens == {0, 4, 6, 8, 1016}

\* the byte a writer fills its next field with
PayByte == 1 + Len(enc.log) + 16 * Len(enc.up)

InitEnc ==
    /\ pc = "start"
    /\ mem = <<>>
    /\ msg = NilSlice
    /\ d = ZeroState
    /\ err = NoErr
    /\ reqs = <<>>
    /\ got = <<>>
    /\ fcalled = FALSE
    /\ arg = [type |-> "none"]
    /\ out = [st |-> "none"]
    /\ enc = [st |-> "none"]
    /\ net = [st |-> "none"]
    /\ run = [st |-> "none"]
    /\ nest = [st |-> "none"]

\* Encode: msg := make([]byte, 1024); st := &EncodeState{msg: msg}; f(st)
EncodeBegin ==
    /\ pc = "start"
    /\ pc' = "writing"
    /\ enc' = [e |-> EncodeStart, called |-> FALSE, n |-> 0, log |-> <<>>,
               up |-> <<>>]
    /\ UNCHANGED <<mem, msg, d, err, reqs, got, fcalled, arg, out, net, run, nest>>

\* the writer calls st.NTags(n), before any other method
WriterNTags(n) ==
    /\ pc = "writing"
    /\ ~enc.called
    /\ \E e1 \in {EncNTags(enc.e, n)} :
        /\ enc' = [enc EXCEPT !.e = e1, !.called = TRUE, !.n = n]
        /\ pc' = IF e1.st = "ok" THEN "writing" ELSE "panicked"
    /\ UNCHANGED <<mem, msg, d, err, reqs, got, fcalled, arg, out, net, run, nest>>

\* the writer calls copy(st.Bytes(t, n), v)
WriterBytes(t, n) ==
    /\ pc = "writing"
    /\ enc.called
    /\ Len(enc.log) < MaxEmit
    /\ \E v \in {Fill(n, PayByte)} :
       \E e1 \in {EncPut(enc.e, t, n, v)} :
        /\ enc' = [enc EXCEPT !.e = e1,
                              !.log = Append(@, [t |-> t, n |-> n, v |-> v,
                                                 kind |-> "bytes"])]
        /\ pc' = IF e1.st = "ok" THEN "writing" ELSE "panicked"
    /\ UNCHANGED <<mem, msg, d, err, reqs, got, fcalled, arg, out, net, run, nest>>

\* the writer calls st.Message(t, f): up to the call of f
WriterMessage(t) ==
    /\ pc = "writing"
    /\ enc.called
    /\ Len(enc.log) < MaxEmit
    /\ Len(enc.up) < MaxDepth
    /\ enc' = [e |-> EncSub(enc.e), called |-> FALSE, n |-> 0, log |-> <<>>,
               up |-> Append(enc.up, [e |-> enc.e, n |-> enc.n,
                                      log |-> enc.log, t |-> t])]
    /\ pc' = "writing"
    /\ UNCHANGED <<mem, msg, d, err, reqs, got, fcalled, arg, out, net, run, nest>>

\* the calls of a writer were those of a message: as many fields as
\* announced, tags ascending from a non-zero one, lengths multiples of 4
WroteMessage(n, log) ==
    /\ Len(log) = n
    /\ \A i \in DOMAIN log : /\ log[i].kind \in {"bytes", "message"}
                             /\ log[i].n % 4 = 0
                             /\ log[i].t # W(0)
                             /\ i > 1 => WLess(log[i - 1].t, log[i].t)

\* the bytes Encode returns for such a writer
EncodeForm(n, log) == IF n = 0 THEN Zeros(4) ELSE Frame(log)

\* the writer f of a Message returns: e.Bytes(t, e.Length()).  The log
\* of the enclosing writer gets the field it asked for: the message f
\* wrote, as Encode would return it.
SubWriterReturn ==
    /\ pc = "writing"
    /\ enc.called
    /\ enc.up # <<>>
    /\ \E p \in {enc.up[Len(enc.up)]} :
       \E e1 \in {EncMessage(p.e, p.t, enc.e)} :
       \E v \in {IF WroteMessage(enc.n, enc.log)
                 THEN EncodeForm(enc.n, enc.log) ELSE <<>>} :
        /\ enc' = [e |-> e1, called |-> TRUE, n |-> p.n,
                   log |-> Append(p.log,
                              [t |-> p.t, n |-> Len(v), v |-> v,
                               kind |-> IF WroteMessage(enc.n, enc.log)
                                        THEN "message" ELSE "other"]),
                   up |-> SubSeq(enc.up, 1, Len(enc.up) - 1)]
        /\ pc' = IF e1.st = "ok" THEN "writing" ELSE "panicked"
    /\ UNCHANGED <<mem, msg, d, err, reqs, got, fcalled, arg, out, net, run, nest>>

\* the outermost writer returns: return st.msg[:st.Length()]
WriterReturn ==
    /\ pc = "writing"
    /\ enc.called
    /\ enc.up = <<>>
    /\ \E r \in {Encode(enc.e)} :
        /\ pc' = IF r.st = "ok" THEN "encoded" ELSE "panicked"
        /\ mem' = r.mem
        /\ msg' = r.msg
    /\ UNCHANGED <<d, err, reqs, got, fcalled, arg, out, enc, net, run, nest>>

NextEnc ==
    \/ EncodeBegin
    \/ \E n \in NTagVals : WriterNTags(n)
    \/ \E t \in EncTagVals, n \in EncLens : WriterBytes(t, n)
    \/ \E t \in EncTagVals : WriterMessage(t)
    \/ SubWriterReturn
    \/ WriterReturn

SpecEnc == InitEnc /\ [][NextEnc]_vars

----------------------------------------------------------------------------
(* What the writer of an Encode call asked for, read off enc.log.          *)

RECURSIVE SumLens(_, _)
\* the lengths of the first i fields of a log, added up
SumLens(log, i) == IF i <= 0 THEN 0 ELSE SumLens(log, i - 1) + log[i].n

\* every field was emitted with Bytes (no nested message)
PlainFields(log) == \A i \in DOMAIN log : log[i].kind = "bytes"

\* the tags are strictly ascending and every length is a multiple of 4
EmitsInOrder(log) ==
    \A i \in DOMAIN log : /\ log[i].n % 4 = 0
                          /\ i > 1 => WLess(log[i - 1].t, log[i].t)

\* header and payloads fit the buffer Encode allocates
FitsBuffer(n, log) ==
    (IF n = 0 THEN 4 ELSE 8 * n) + SumLens(log, Len(log)) <= EncBufLen

\* the outermost writer, at most n plain fields so far, all as required
PlainPrefix ==
    /\ pc # "start"
    /\ enc.up = <<>>
    /\ enc.called
    /\ Len(enc.log) <= enc.n
    /\ PlainFields(enc.log)
    /\ EmitsInOrder(enc.log)
    /\ FitsBuffer(enc.n, enc.log)

\* the returned bytes are the frame of n fields with the tags t and the
\* payloads v of the log
FrameIs(n, log) ==
    LET b == BytesOf(mem, msg) IN
    IF n = 0 THEN b = <<0, 0, 0, 0>>
    ELSE /\ Len(b) = 8 * n + SumLens(log, n)
         /\ SubSeq(b, 1, 4) = LE32(W(n))
         /\ \A i \in 1..(n - 1) :
                SubSeq(b, 4 * i + 1, 4 * i + 4) = LE32(W(SumLens(log, i)))
         /\ \A i \in 1..n :
                SubSeq(b, 4 * n + 4 * i - 3, 4 * n + 4 * i) = LE32(log[i].t)
         /\ \A i \in 1..n :
                SubSeq(b, 8 * n + SumLens(log, i - 1) + 1,
                          8 * n + SumLens(log, i)) = log[i].v

\* C11 (encoder frame layout): a writer that calls NTags(n) and then emits
\* n fields with strictly ascending tags and lengths that are multiples of
\* 4 (fitting the 1024-byte buffer) gets from Encode exactly the frame
\* count, n-1 running offsets, n tags, payloads - 8n + sum(lengths) bytes,
\* or 00 00 00 00 for n = 0; so Encode does not panic on such a writer, at
\* any of its calls.
C11_FrameLayout ==
    /\ (pc = "encoded" /\ PlainPrefix /\ Len(enc.log) = enc.n)
           => FrameIs(enc.n, enc.log)
    /\ PlainPrefix => pc # "panicked"

\* C12 (encoder misuse is caught): Encode returns bytes only if the tags
\* were emitted in strictly ascending order and exactly n fields were
\* emitted after NTags(n) (n = 0 included); the count in the header of a
\* returned frame is the number of fields written.
C12_MisuseCaught ==
    pc = "encoded" =>
        /\ Len(enc.log) = enc.n
        /\ \A i \in 2..Len(enc.log) : WLess(enc.log[i - 1].t, enc.log[i].t)
        /\ N(Uint32(mem, msg)) = Len(enc.log)

----------------------------------------------------------------------------
(* The size of the request datagram (SpecRT, the Request values).          *)

\* C13 (request size): wire.Encode(req.encode) never panics and returns
\* exactly 1024 bytes for every nonce: the 16-byte header 2, 64, NONC, PAD,
\* the 64 bytes of the nonce and 944 zero bytes of padding; so the check
\* len(msg) != 1024 of FetchRoughtime never fires.
C13_RequestSize ==
    arg.type = "Request" =>
        /\ pc # "panicked"
        /\ pc # "start" =>
            /\ msg.len = 1024
            /\ BytesOf(mem, Slice(msg, 0, 16))
                   = LE32(W(2)) \o LE32(W(64)) \o LE32(NONC) \o LE32(PAD)
            /\ BytesOf(mem, Slice(msg, 16, 80)) = arg.m.Nonce
            /\ BytesOf(mem, Slice(msg, 80, 1024)) = Zeros(944)

\* a request with the nonce 1, 2, ..., 64 has been encoded
C13_Witness ==
    /\ arg.type = "Request"
    /\ pc = "encoded"
    /\ arg.m.Nonce = Ramp(64)
    /\ msg.len = 1024

----------------------------------------------------------------------------
(* ParseResponse on a changed copy of the reply of the state (SpecParse).  *)

\* the call with the PATH, the INDX and the nonce given, everything else as
\* in the reply of the state
Reparse(path, idx, nonce) ==
    ParseResponse(ReplyOf(arg.sig, path, arg.srep, arg.certsig, idx), msg,
                  nonce, arg.root)

\* the result is the error of the Merkle check
NonceMismatch(r) == r.st = "err" /\ r.err = errVerification

\* bit 0 of an index flipped
FlipBit0(idx) == <<idx[1], IF idx[2] % 2 = 0 THEN idx[2] + 1 ELSE idx[2] - 1>>

\* C14 (Merkle sensitivity): when a reply verifies for a nonce, the copy
\* with another INDX (a bit the PATH uses), the copy with another sibling
\* in PATH, and the same reply checked against another nonce are each
\* rejected with the error of the Merkle check.
C14_MerkleSensitivity ==
    Accepted =>
        /\ NonceMismatch(Reparse(arg.path, arg.index, Altered(arg.nonce)))
        /\ arg.path # <<>> =>
            /\ NonceMismatch(Reparse(arg.path, FlipBit0(arg.index), arg.nonce))
            /\ NonceMismatch(Reparse(<<Altered(arg.path[1])>>, arg.index, arg.nonce))

----------------------------------------------------------------------------
(* FetchRoughtime(addr, key): src/roughtime.go, lines 194-233, one action  *)
(* per call that can block or fail.  net = [sock, ops, rand, req, sent]:   *)
(* the state of conn, the network operations made so far, the bytes drawn  *)
(* from rand.Reader, the Request req and the datagram handed to WriteTo.   *)
(* mem and msg are the buffer msg of the function; after the receive, arg  *)
(* tells what the datagram that arrived was made of.                       *)

errResolve == "ResolveUDPAddr failed"
errListen  == "ListenUDP failed"
errRandom  == "ReadFull failed"
errWrite   == "WriteTo failed"
errRead    == "ReadFromUDP failed"

\* return m, r, err with m and r still zero
FetchFailed(e) == [st |-> "err", err |-> e, m |-> ZeroTime, r |-> ZeroTime]

\* a return that leaves the socket as it is
ConnCloseSkipped(n) == n

\* the deferred conn.Close() of a return or a panic
ConnClose(n) == [n EXCEPT !.sock = "closed", !.ops = Append(@, "close")]

InitFetch ==
    /\ pc = "start"
    /\ mem = <<>>
    /\ msg = NilSlice
    /\ d = ZeroState
    /\ err = NoErr
    /\ reqs = <<>>
    /\ got = <<>>
    /\ fcalled = FALSE
    /\ arg = [type |-> "none"]
    /\ out = [st |-> "none"]
    /\ enc = [st |-> "none"]
    /\ net = [sock |-> "none", ops |-> <<>>, rand |-> <<>>, req |-> ZeroRequest,
              sent |-> <<>>]
    /\ run = [st |-> "none"]
    /\ nest = [st |-> "none"]

\* a, err := net.ResolveUDPAddr("udp", addr)
FetchResolve(ok) ==
    /\ pc = "start"
    /\ pc' = IF ok THEN "resolved" ELSE "returned"
    /\ out' = IF ok THEN out ELSE FetchFailed(errResolve)
    /\ UNCHANGED <<mem, msg, d, err, reqs, got, fcalled, arg, enc, net, run, nest>>

\* conn, err := net.ListenUDP("udp", &net.UDPAddr{}); defer conn.Close()
FetchListen(ok) ==
    /\ pc = "resolved"
    /\ pc' = IF ok THEN "bound" ELSE "returned"
    /\ out' = IF ok THEN out ELSE FetchFailed(errListen)
    /\ net' = IF ok THEN [net EXCEPT !.sock = "open", !.ops = Append(@, "listen")]
                    ELSE net
    /\ UNCHANGED <<mem, msg, d, err, reqs, got, fcalled, arg, enc, run, nest>>

\* io.ReadFull(rand.Reader, req.Nonce[:]), then the loop
\* req.Nonce[i] = byte(i)
FetchNonce(ok, r) ==
    /\ pc = "bound"
    /\ pc' = IF ok THEN "drawn" ELSE "returned"
    /\ out' = IF ok THEN out ELSE FetchFailed(errRandom)
    /\ net' = IF ok THEN [net EXCEPT !.rand = r,
                                     !.req = [Nonce |-> [k \in 1..64 |-> k - 1]]]
                    ELSE ConnClose(net)
    /\ UNCHANGED <<mem, msg, d, err, reqs, got, fcalled, arg, enc, run, nest>>

\* msg := wire.Encode(req.encode); if len(msg) != 1024 { panic(...) }
FetchEncode ==
    /\ pc = "drawn"
    /\ \E r \in {EncodeOf([type |-> "Request", m |-> net.req])} :
       \E good \in {r.st = "ok" /\ r.msg.len = 1024} :
        /\ pc' = IF good THEN "encoded" ELSE "panicked"
        /\ mem' = IF good THEN r.mem ELSE mem
        /\ msg' = IF good THEN r.msg ELSE msg
        /\ net' = IF good THEN net ELSE ConnClose(net)
    /\ UNCHANGED <<d, err, reqs, got, fcalled, arg, out, enc, run, nest>>

\* _, err = conn.WriteTo(msg, a)
FetchSend(ok) ==
    /\ pc = "encoded"
    /\ pc' = IF ok THEN "sent" ELSE "returned"
    /\ out' = IF ok THEN out ELSE FetchFailed(errWrite)
    /\ \E n1 \in {[net EXCEPT !.ops = Append(@, "send"),
                              !.sent = BytesOf(mem, msg)]} :
        net' = IF ok THEN n1 ELSE ConnClose(n1)
    /\ UNCHANGED <<mem, msg, d, err, reqs, got, fcalled, arg, enc, run, nest>>

\* msg = msg[:1024]; n, _, err := conn.ReadFromUDP(msg) fails
FetchReceiveFails ==
    /\ pc = "sent"
    /\ pc' = "returned"
    /\ out' = FetchFailed(errRead)
    /\ net' = ConnClose([net EXCEPT !.ops = Append(@, "receive")])
    /\ UNCHANGED <<mem, msg, d, err, reqs, got, fcalled, arg, enc, run, nest>>

\* the datagram dg arrives: ReadFromUDP copies it into msg, and
\* msg = msg[:n]
Receive(dg, what) ==
    /\ CanSlice(msg, 0, 1024)
    /\ \E b \in {Slice(msg, 0, 1024)} :
       \E n \in {IF Len(dg) < b.len THEN Len(dg) ELSE b.len} :
        /\ mem' = Copy(mem, b, dg)
        /\ msg' = Slice(b, 0, n)
    /\ arg' = what
    /\ pc' = "received"
    /\ net' = [net EXCEPT !.ops = Append(@, "receive")]
    /\ UNCHANGED <<d, err, reqs, got, fcalled, out, enc, run, nest>>

\* a reply arrives that a server, or someone in its place, has built: for
\* the nonce of the request or for another one
FetchReceiveReply ==
    /\ pc = "sent"
    /\ \E nonce \in {net.req.Nonce, Fill(64, 17)}, path \in PathVals,
          midp \in MidpVals, rootKind \in {"tree", "zero", "other"},
          sigOk \in BOOLEAN, certOk \in BOOLEAN :
       \E root \in {CASE rootKind = "tree" -> MerkleRootOf(nonce, W(0), path)
                        [] rootKind = "zero" -> Zeros(64)
                        [] OTHER -> Fill(64, 5)} :
       \E srep \in {SrepOf(root, midp)} :
       \E s \in {Ed25519Sign(ServerKey, contextSignedResponse \o srep)},
          cs \in {Ed25519Sign(RootKey, contextCertificate \o DeleOf)} :
       \E sig \in {IF sigOk THEN s ELSE Altered(s)},
          certsig \in {IF certOk THEN cs ELSE Altered(cs)} :
          Receive(ReplyOf(sig, path, srep, certsig, W(0)),
                  [type |-> "reply", nonce |-> net.req.Nonce, root |-> RootKey,
                   sig |-> sig, certsig |-> certsig, pubk |-> ServerKey,
                   srep |-> srep, dele |-> DeleOf, rootHash |-> root,
                   path |-> path, index |-> W(0),
                   mint |-> MinT, midp |-> midp, maxt |-> MaxT])

\* a datagram arrives that is no message at all
FetchReceiveJunk ==
    /\ pc = "sent"
    /\ \E dg \in {<<>>, <<1, 2, 3>>, Fill(8, 255)} :
        Receive(dg, [type |-> "junk"])

\* var resp Response; wire.Decode(msg, resp.decode); return resp.Midpoint,
\* resp.Radius, nil
FetchDecode ==
    /\ pc = "received"
    /\ \E r \in {DecodeOf("Response", mem, msg)} :
        /\ pc' = IF r.st = "panic" THEN "panicked" ELSE "returned"
        /\ out' = CASE r.st = "ok" ->
                          [st |-> "ok", err |-> NoErr,
                           m |-> r.v.SignedResponse.Midpoint,
                           r |-> r.v.SignedResponse.Radius]
                    [] r.st = "abort" -> FetchFailed(r.err)
                    [] OTHER -> out
    /\ net' = ConnClose(net)
    /\ UNCHANGED <<mem, msg, d, err, reqs, got, fcalled, arg, enc, run, nest>>

NextFetch ==
    \/ \E ok \in BOOLEAN : FetchResolve(ok)
    \/ \E ok \in BOOLEAN : FetchListen(ok)
    \/ \E ok \in BOOLEAN, r \in NonceVals : FetchNonce(ok, r)
    \/ FetchEncode
    \/ \E ok \in BOOLEAN : FetchSend(ok)
    \/ FetchReceiveFails
    \/ FetchReceiveReply
    \/ FetchReceiveJunk
    \/ FetchDecode

SpecFetch == InitFetch /\ [][NextFetch]_vars

\* C15 (only verified times): FetchRoughtime returns a (midpoint, radius)
\* without error only when the datagram it received is a reply whose
\* delegation signature verifies under the given key, whose response
\* signature verifies under the delegated key, whose Merkle path proves the
\* nonce that was sent, and whose midpoint lies in the delegation window.
C15_FetchOnlyVerified ==
    (pc = "returned" /\ out.st = "ok") =>
        /\ arg.type = "reply"
        /\ Ed25519Verify(arg.root, contextCertificate \o arg.dele, arg.certsig)
        /\ Ed25519Verify(arg.pubk, contextSignedResponse \o arg.srep, arg.sig)
        /\ MerkleRootOf(net.req.Nonce, arg.index, arg.path) = arg.rootHash
        /\ ~U64Less(arg.midp, arg.mint) /\ ~U64Less(arg.maxt, arg.midp)

----------------------------------------------------------------------------
(* The notary tool: main of src/cmd/notary/main.go, lines 30-82.  arg is   *)
(* the command line and what stands behind it: the -verify flag and the    *)
(* chain document on standard input.  run = [nonce, c, i, prev, verr,      *)
(* built]: the hash of the file, the chain LoadChain returned, the link    *)
(* the verification is at and the hash of the reply before it, the error   *)
(* VerifyChain returned, and whether Chain has returned nil.               *)
(*                                                                         *)
(* LoadChain, VerifyChain and Chain are called by main but are not among   *)
(* the sources.  LoadChain and Chain appear by their outcomes only;        *)
(* VerifyChain follows the description "verify(reader, servers)" of the    *)
(* specification, section 4.5, step 4, and verifies each stored reply with *)
(* ParseResponse.                                                          *)

\* how many links a chain document has at most
MaxLinks == 2

\* the file named on the command line, and the long-term key of server i
File == <<110, 111, 116, 97, 114, 121>>
KeyOfServer(i) == IF i = 1 THEN RootKey ELSE Fill(32, 5 + i)

\* a link: the server's key, the seed (NonceOrBlind) and the reply, a frame
\* whose fields the record keeps too.  The reply is built for the nonce
\* given: kind "tree" puts the Merkle root of that nonce (empty PATH) into
\* ROOT, kind "zero" puts 64 zero bytes there; signed says whether SIG is
\* the signature of SREP.
MakeLink(key, seed, nonce, kind, signed) ==
    \* every value is bound once
    CHOOSE l \in
      {[key |-> key, seed |-> seed, root |-> root, srep |-> srep, sig |-> sig,
        certsig |-> cs, reply |-> ReplyOf(sig, <<>>, srep, cs, W(0))] :
          root \in {IF kind = "tree" THEN MerkleRootOf(nonce, W(0), <<>>)
                                     ELSE Zeros(64)},
          srep \in {SrepOf(IF kind = "tree" THEN MerkleRootOf(nonce, W(0), <<>>)
                                            ELSE Zeros(64),
                           <<6, 24000, 150, 7>>)},
          sig \in {IF signed
                   THEN Ed25519Sign(ServerKey, contextSignedResponse \o
                            SrepOf(IF kind = "tree"
                                   THEN MerkleRootOf(nonce, W(0), <<>>)
                                   ELSE Zeros(64), <<6, 24000, 150, 7>>))
                   ELSE Altered(Ed25519Sign(ServerKey, contextSignedResponse \o
                            SrepOf(IF kind = "tree"
                                   THEN MerkleRootOf(nonce, W(0), <<>>)
                                   ELSE Zeros(64), <<6, 24000, 150, 7>>)))},
          cs \in {Ed25519Sign(key, contextCertificate \o DeleOf)}} : TRUE

\* the nonce link i of the chain c has to prove
ChainNonce(c, i) ==
    IF i = 1 THEN c[1].seed
    ELSE Sha512(Sha512(c[i - 1].reply) \o c[i].seed)

RECURSIVE BuiltChain(_, _, _, _)
\* the chain of n links a client builds from the seed seed0 when server i
\* answers with a reply of kind kinds[i], signed or not
BuiltChain(n, seed0, kinds, signed) ==
    IF n = 0 THEN <<>>
    ELSE \* the chain up to link n - 1 is bound once
         CHOOSE c \in
           {Append(b, MakeLink(KeyOfServer(n), s,
                               IF n = 1 THEN s
                               ELSE Sha512(Sha512(b[n - 1].reply) \o s),
                               kinds[n], signed[n])) :
               b \in {BuiltChain(n - 1, seed0, kinds, signed)},
               s \in {IF n = 1 THEN seed0 ELSE Fill(64, 20 + n)}} : TRUE

\* what may have happened to the document since: nothing, links 1 and 2
\* swapped, or the reply of link 1 replaced by one with another signature
Stored(c, how) ==
    CASE how = "swap" /\ Len(c) >= 2 ->
            [i \in 1..Len(c) |-> IF i = 1 THEN c[2] ELSE IF i = 2 THEN c[1] ELSE c[i]]
      [] how = "mutate" /\ Len(c) >= 2 ->
            [c EXCEPT ![1] = MakeLink(c[1].key, c[1].seed, c[1].seed,
                                      IF c[1].root = Zeros(64) THEN "zero"
                                                               ELSE "tree",
                                      c[1].sig # Ed25519Sign(ServerKey,
                                          contextSignedResponse \o c[1].srep))]
      [] OTHER -> c

InitNotary ==
    /\ \E verify \in BOOLEAN, n \in 0..MaxLinks,
          seed0 \in {Sha512(File), Fill(64, 17)},
          how \in {"none", "swap", "mutate"} :
       \E kinds \in [1..n -> {"tree", "zero"}], signed \in [1..n -> BOOLEAN] :
        /\ how # "none" => n >= 2
        /\ ~verify => n = 0
        /\ arg = [type |-> "notary", verify |-> verify, how |-> how,
                  honest |-> \A i \in 1..n : kinds[i] = "tree" /\ signed[i],
                  chain |-> Stored(BuiltChain(n, seed0, kinds, signed), how)]
    /\ pc = "start"
    /\ run = [nonce |-> <<>>, c |-> <<>>, i |-> 0, prev |-> <<>>,
              verr |-> "none", built |-> FALSE]
    /\ nest = [st |-> "none"]
    /\ out = [st |-> "none"]
    /\ mem = <<>>
    /\ msg = NilSlice
    /\ d = ZeroState
    /\ err = NoErr
    /\ reqs = <<>>
    /\ got = <<>>
    /\ fcalled = FALSE
    /\ enc = [st |-> "none"]
    /\ net = [st |-> "none"]

\* log.Fatal(err): the message is logged and the process exits with 1
Fatal(e) == [st |-> "fatal", err |-> e]

\* flag.Parse(); if flag.NArg() < 1 { log.Fatalf(...) }
MainArgs(ok) ==
    /\ pc = "start"
    /\ pc' = IF ok THEN "parsed" ELSE "fatal"
    /\ out' = IF ok THEN out ELSE Fatal("usage")
    /\ UNCHANGED <<mem, msg, d, err, reqs, got, fcalled, arg, enc, net, run, nest>>

\* servers, err := serverList(*serversJSON)
MainServerList(ok) ==
    /\ pc = "parsed"
    /\ pc' = IF ok THEN "listed" ELSE "fatal"
    /\ out' = IF ok THEN out ELSE Fatal("serverList failed")
    /\ UNCHANGED <<mem, msg, d, err, reqs, got, fcalled, arg, enc, net, run, nest>>

\* nonce, err := hashFile(flag.Arg(0))
MainHashFile(ok) ==
    /\ pc = "listed"
    /\ pc' = IF ok THEN "hashed" ELSE "fatal"
    /\ out' = IF ok THEN out ELSE Fatal("hashFile failed")
    /\ run' = IF ok THEN [run EXCEPT !.nonce = Sha512(File)] ELSE run
    /\ UNCHANGED <<mem, msg, d, err, reqs, got, fcalled, arg, enc, net, nest>>

\* c, err := roughtime.LoadChain(os.Stdin)
MainLoadChain(ok) ==
    /\ pc = "hashed"
    /\ arg.verify
    /\ pc' = IF ok THEN "verifying" ELSE "fatal"
    /\ out' = IF ok THEN out ELSE Fatal("LoadChain failed")
    /\ run' = IF ok THEN [run EXCEPT !.c = arg.chain, !.i = 1] ELSE run
    /\ UNCHANGED <<mem, msg, d, err, reqs, got, fcalled, arg, enc, net, nest>>

\* VerifyChain, one link: the nonce is the seed for the first link and
\* SHA-512(prev_hash || seed) after it; the stored reply is verified under
\* the link's key; prev_hash becomes SHA-512(reply)
VerifyLinkResult(link, i, prev) ==
    ParseResponse(link.reply,
                  [off |-> 0, len |-> Len(link.reply), cap |-> Len(link.reply)],
                  IF i = 1 THEN link.seed ELSE Sha512(prev \o link.seed),
                  link.key)

VerifyLink ==
    /\ pc = "verifying"
    /\ run.i <= Len(run.c)
    /\ \E r \in {VerifyLinkResult(run.c[run.i], run.i, run.prev)} :
        /\ pc' = CASE r.st = "ok" -> "verifying"
                   [] r.st = "err" -> "verified"
                   [] OTHER -> "panicked"
        /\ run' = CASE r.st = "ok" ->
                          [run EXCEPT !.i = @ + 1,
                                      !.prev = Sha512(run.c[run.i].reply)]
                    [] r.st = "err" -> [run EXCEPT !.verr = r.err]
                    [] OTHER -> run
    /\ UNCHANGED <<mem, msg, d, err, reqs, got, fcalled, arg, out, enc, net, nest>>

\* VerifyChain has verified every link and returns nil
VerifyEnd ==
    /\ pc = "verifying"
    /\ run.i > Len(run.c)
    /\ pc' = "verified"
    /\ run' = [run EXCEPT !.verr = NoErr]
    /\ UNCHANGED <<mem, msg, d, err, reqs, got, fcalled, arg, out, enc, net, nest>>

\* len(c.Links) == 0 || bytes.Compare(c.Links[0].NonceOrBlind, nonce) != 0,
\* with "the first seed is another one" in place of the comparison
ChainNonceMismatchNoLen(c, nonce) == Len(c) > 0 /\ c[1].seed # nonce

\* len(c.Links) == 0 || bytes.Compare(c.Links[0].NonceOrBlind, nonce) != 0
ChainNonceMismatch(c, nonce) == Len(c) = 0 \/ c[1].seed # nonce

\* if err := VerifyChain(c, servers); err != nil { log.Fatal(err) }, then
\* the check of the first link and the return
MainCheckChain ==
    /\ pc = "verified"
    /\ \E bad \in {IF run.verr # NoErr THEN run.verr
                   ELSE IF ChainNonceMismatch(run.c, run.nonce)
                   THEN "chain nonce does not match file"
                   ELSE NoErr} :
        /\ pc' = IF bad = NoErr THEN "exit0" ELSE "fatal"
        /\ out' = IF bad = NoErr THEN [st |-> "exit0", err |-> NoErr]
                                 ELSE Fatal(bad)
    /\ UNCHANGED <<mem, msg, d, err, reqs, got, fcalled, arg, enc, net, run, nest>>

\* if err := roughtime.Chain(os.Stdout, servers, nonce); err != nil {
\* log.Fatal(err) }
MainChain(ok) ==
    /\ pc = "hashed"
    /\ ~arg.verify
    /\ pc' = IF ok THEN "exit0" ELSE "fatal"
    /\ out' = IF ok THEN [st |-> "exit0", err |-> NoErr] ELSE Fatal("Chain failed")
    /\ run' = [run EXCEPT !.built = ok]
    /\ UNCHANGED <<mem, msg, d, err, reqs, got, fcalled, arg, enc, net, nest>>

NextNotary ==
    \/ \E ok \in BOOLEAN : MainArgs(ok)
    \/ \E ok \in BOOLEAN : MainServerList(ok)
    \/ \E ok \in BOOLEAN : MainHashFile(ok)
    \/ \E ok \in BOOLEAN : MainLoadChain(ok)
    \/ VerifyLink
    \/ VerifyEnd
    \/ MainCheckChain
    \/ \E ok \in BOOLEAN : MainChain(ok)

SpecNotary == InitNotary /\ [][NextNotary]_vars

\* VerifyChain has returned nil for the chain on standard input
ChainAccepted == arg.type = "notary" /\ run.verr = NoErr

\* link i of the chain c proves the nonce it has to prove, under the key of
\* its server: the delegation is signed with that key, the response with
\* the delegated key, and ROOT is the Merkle root of that nonce
LinkProves(c, i) ==
    /\ Ed25519Verify(c[i].key, contextCertificate \o DeleOf, c[i].certsig)
    /\ Ed25519Verify(ServerKey, contextSignedResponse \o c[i].srep, c[i].sig)
    /\ c[i].root = MerkleRootOf(ChainNonce(c, i), W(0), <<>>)

\* C16 (chain binding): the verification accepts a chain only if link 0's
\* reply proves link 0's seed and every later link's reply proves
\* SHA-512(SHA-512(reply of the link before) || seed) under the link's own
\* key; so a chain built honestly is no longer accepted once the reply of
\* a non-final link was changed or two links were swapped.
C16_ChainBinding ==
    ChainAccepted =>
        /\ \A i \in 1..Len(run.c) : LinkProves(run.c, i)
        /\ arg.honest => arg.how = "none"

\* C17 (verify mode): the tool ends successfully in verify mode only if
\* VerifyChain returned nil for the chain read from standard input, the
\* chain has at least one link and the seed of its first link is the
\* SHA-512 of the file, and in build mode only if Chain returned nil; every
\* other run that ends, ends in log.Fatal.
C17_VerifyMode ==
    arg.type = "notary" =>
        /\ pc # "panicked"
        /\ (pc = "exit0" /\ arg.verify) =>
                /\ run.c = arg.chain
                /\ run.verr = NoErr
                /\ run.i = Len(run.c) + 1
                /\ Len(run.c) >= 1
                /\ run.c[1].seed = Sha512(File)
        /\ (pc = "exit0" /\ ~arg.verify) => run.built

\* the tool has ended successfully in verify mode
C17_Witness ==
    /\ arg.type = "notary"
    /\ arg.verify
    /\ pc = "exit0"
    /\ Len(run.c) = 2

----------------------------------------------------------------------------
(* Messages inside messages (SpecEnc). *)

\* the outermost writer has emitted at most n fields so far, each with
\* Bytes or as a message, all as required, and the frame of what it asked
\* for fits the buffer
NestedPrefix ==
    /\ pc # "start"
    /\ enc.up = <<>>
    /\ enc.called
    /\ Len(enc.log) <= enc.n
    /\ WroteMessage(Len(enc.log), enc.log)
    /\ \E i \in DOMAIN enc.log : enc.log[i].kind = "message"
    /\ FitsBuffer(enc.n, enc.log)

\* C18 (nested encoding): Message(t, f), called at any point of an
\* encoding, commits one field whose payload is the message f wrote, as
\* Encode would return it, and whose length is that message's length; the
\* header and the fields emitted before it stay as they were, so that the
\* frame returned in the end is the frame of all fields asked for.
C18_NestedEncoding ==
    /\ (pc = "encoded" /\ NestedPrefix /\ Len(enc.log) = enc.n)
           => FrameIs(enc.n, enc.log)
    /\ NestedPrefix => pc # "panicked"

----------------------------------------------------------------------------
(* Nested decoding (src/internal/wire/decoder.go, lines 172-185): an outer *)
(* frame whose SREP field holds the nested payload, decoded by a reader    *)
(* that calls Message and a sub-reader that asks for fields.               *)

\* the bytes of a list of header words
Words(ws) ==
    [k \in 1..(4 * Len(ws)) |-> LE32(ws[((k - 1) \div 4) + 1])[((k - 1) % 4) + 1]]

Pay4(b) == <<b, b + 1, b + 2, b + 3>>

\* the payloads of the nested field: frames of two, one and no field, and
\* payloads that are no message of their own
NestPayloads ==
    { Frame(<<[t |-> RADI, v |-> Pay4(17)], [t |-> MIDP, v |-> Pay4(33)]>>),
      Frame(<<[t |-> RADI, v |-> Pay4(17)]>>),
      Zeros(4),
      <<>>,
      Words(<<W(1)>>),
      Words(<<W(200)>>),
      Words(<<W(2), W(4), MIDP, RADI>>) \o Pay4(17) \o Pay4(33),
      Words(<<W(2), W(3), RADI, MIDP>>) \o Pay4(17) \o Pay4(33),
      Words(<<W(2), W(4), RADI, MIDP>>) }

\* the outer frame: the nested field alone, or followed by a further field
NestFrame(p, alone) ==
    IF alone THEN Frame(<<[t |-> SREP, v |-> p]>>)
    ELSE Frame(<<[t |-> SREP, v |-> p], [t |-> INDX, v |-> Pay4(65)]>>)

InitNest ==
    /\ \E p \in NestPayloads, alone \in BOOLEAN :
        /\ mem = NestFrame(p, alone)
        /\ msg = [off |-> 0, len |-> Len(NestFrame(p, alone)),
                  cap |-> Len(NestFrame(p, alone))]
        /\ arg = [type |-> "nest", frame |-> NestFrame(p, alone), payload |-> p]
    /\ pc = "start"
    /\ d = ZeroState
    /\ err = NoErr
    /\ reqs = <<>>
    /\ got = <<>>
    /\ fcalled = FALSE
    /\ enc = [st |-> "none"]
    /\ net = [st |-> "none"]
    /\ run = [st |-> "none"]
    /\ nest = [st |-> "none"]
    /\ out = [st |-> "none"]

\* the reader calls st.Message(t, &raw, f): Bytes, the length check,
\* SetMessage on a fresh state that shares the error slot, up to the call
\* of f
ReaderMessage(t) ==
    /\ pc = "reading"
    /\ nest.st = "none"
    /\ Len(reqs) < MaxReq
    /\ \E r \in {Bytes(mem, d, t)} :
       \E s \in {SetMessage(mem, r.val)} :
        /\ pc' = IF r.st = "panic" THEN "panicked"
                 ELSE IF r.st = "abort" \/ r.val.len < 4 THEN "aborted"
                 ELSE CASE s.st = "ok" -> "subreading"
                        [] s.st = "abort" -> "aborted"
                        [] OTHER -> "panicked"
        /\ d' = [d EXCEPT !.i = r.i]
        /\ err' = IF r.st # "ok" THEN r.err
                  ELSE IF r.val.len < 4 THEN errInvalidMessage
                  ELSE s.err
        /\ nest' = IF r.st = "ok" /\ r.val.len >= 4
                   THEN [st |-> IF s.st = "ok" THEN "in" ELSE "failed",
                         d |-> s.d, buf |-> r.val, raw |-> NilSlice,
                         reqs |-> <<>>, got |-> <<>>, from |-> d.i,
                         after |-> r.i]
                   ELSE nest
    /\ reqs' = Append(reqs, [tag |-> t, at |-> d.i])
    /\ UNCHANGED <<mem, msg, got, fcalled, arg, out, enc, net, run>>

\* the sub-reader calls st.Bytes(t, &p) on the nested cursor
SubReaderBytes(t) ==
    /\ pc = "subreading"
    /\ Len(nest.reqs) < MaxReq
    /\ \E r \in {Bytes(mem, nest.d, t)} :
        /\ pc' = CASE r.st = "ok" -> "subreading"
                   [] r.st = "abort" -> "aborted"
                   [] OTHER -> "panicked"
        /\ err' = r.err
        /\ nest' = [nest EXCEPT
                      !.d = [nest.d EXCEPT !.i = r.i],
                      !.reqs = Append(nest.reqs, [tag |-> t, at |-> nest.d.i]),
                      !.got = IF r.st = "ok"
                              THEN Append(nest.got, [tag |-> t, idx |-> r.i - 1,
                                                     val |-> r.val])
                              ELSE nest.got]
    /\ UNCHANGED <<mem, msg, d, reqs, got, fcalled, arg, out, enc, net, run>>

\* the sub-reader returns: *raw = buf, and the reader goes on
SubReaderReturn ==
    /\ pc = "subreading"
    /\ pc' = "reading"
    /\ nest' = [nest EXCEPT !.st = "done", !.raw = nest.buf, !.after = d.i]
    /\ UNCHANGED <<mem, msg, d, err, reqs, got, fcalled, arg, out, enc, net, run>>

NestTags == {SREP, INDX}
SubTags == {RADI, MIDP}

NextNest ==
    \/ DecodeStart
    \/ \E t \in NestTags : ReaderBytes(t)
    \/ \E t \in NestTags : ReaderMessage(t)
    \/ \E t \in SubTags : SubReaderBytes(t)
    \/ SubReaderReturn
    \/ ReaderReturn

SpecNest == InitNest /\ [][NextNest]_vars

----------------------------------------------------------------------------
(* What a payload says when it is read as a message of its own.            *)

PayN(m, b) == N(Uint32(m, b))
PayTag(m, b, i) == Uint32(m, From(b, 4 * PayN(m, b) + 4 * i))
PayOff(m, b, i) == IF i = 0 THEN W(0) ELSE Uint32(m, From(b, 4 * i))
PayEnd(m, b, i) ==
    IF i + 1 < PayN(m, b) THEN PayOff(m, b, i + 1)
    ELSE W(b.len - 8 * PayN(m, b))

\* at least the count word, the 8*n header bytes it declares, strictly
\* increasing tags, and fields that lie in the payload's body with lengths
\* that are multiples of 4
ValidMessage(m, b) ==
    /\ b.len >= 4
    /\ ~WLess(W(b.len \div 8), Uint32(m, b))
    /\ \A i \in 1..(PayN(m, b) - 1) : WLess(PayTag(m, b, i - 1), PayTag(m, b, i))
    /\ \A i \in 0..(PayN(m, b) - 1) :
        /\ WLeq(PayOff(m, b, i), PayEnd(m, b, i))
        /\ (N(PayEnd(m, b, i)) - N(PayOff(m, b, i))) % 4 = 0

\* the range of field i of the outer frame
OuterField(i) ==
    [off |-> msg.off + 8 * NumTags + N(OffAt(i)),
     len |-> N(EndAt(i)) - N(OffAt(i))]

Within(v, b) == b.off <= v.off /\ v.off + v.len <= b.off + b.len

(* C19: Message hands a payload to the sub-reader only when it is a valid  *)
(* message of its own, and otherwise aborts the Decode with an error and   *)
(* without a panic; the sub-reader starts at field 0 of the payload and is *)
(* handed bytes of the payload only; raw is exactly the field's payload,   *)
(* untouched; the parent cursor stands one field further whatever the      *)
(* sub-reader asked for; an error of the sub-reader ends the Decode with   *)
(* that error.                                                             *)
C19_NestedDecoding ==
    /\ pc # "panicked"
    /\ pc = "aborted" => err # NoErr
    /\ nest.st \in {"in", "done"} =>
        /\ ValidMessage(mem, nest.buf)
        /\ nest.buf.off = OuterField(nest.from).off
        /\ nest.buf.len = OuterField(nest.from).len
        /\ nest.after = nest.from + 1
        /\ pc = "subreading" => d.i = nest.after
        /\ nest.reqs = <<>> => nest.d.i = 0
        /\ \A k \in 1..Len(nest.got) : Within(nest.got[k].val, nest.buf)
    /\ nest.st = "failed" => ~ValidMessage(mem, nest.buf) /\ pc = "aborted"
    /\ nest.st = "done" =>
        /\ nest.raw = nest.buf
        /\ BytesOf(mem, nest.raw) = arg.payload
        /\ mem = arg.frame

----------------------------------------------------------------------------
(* The Merkle stage of ParseResponse (SpecParse). *)

\* the call got as far as the comparison of the hash with ROOT
MerkleStageReached ==
    /\ pc = "returned"
    /\ out.st = "ok" \/ out.err \in {errVerification, errInvalidMidpoint}

\* C20 (Merkle-path reconstruction): a reply passes the Merkle stage iff
\* the value built from the leaf hash of the nonce and the PATH siblings in
\* declared order, with bit k of INDX choosing the side at step k, equals
\* ROOT (with an empty PATH: iff the leaf hash equals ROOT); otherwise the
\* result is the error of the Merkle check and no time.
C20_MerklePath ==
    MerkleStageReached =>
        /\ RootMatches => ~NonceMismatch(out)
        /\ ~RootMatches =>
            /\ NonceMismatch(out)
            /\ out.m = ZeroTime
            /\ out.r = ZeroTime

----------------------------------------------------------------------------
(* The hasher inputs of the Merkle stage of ParseResponse (SpecParse). *)

\* the inputs hashNode is given in the loop over the path, in order
RECURSIVE NodeInputs(_, _, _)
NodeInputs(hash, idx, path) ==
    IF Len(path) = 0 THEN <<>>
    ELSE <<IF idx[2] % 2 = 0 THEN hashNodeInput(hash, path[1])
                               ELSE hashNodeInput(path[1], hash)>>
         \o NodeInputs(IF idx[2] % 2 = 0 THEN hashNode(hash, path[1])
                                          ELSE hashNode(path[1], hash),
                       <<idx[1] \div 2, (idx[1] % 2) * 32768 + idx[2] \div 2>>,
                       Tail(path))

\* what the call of the state has hashed: the leaf, then the nodes
LeafInput == hashLeafInput(arg.nonce)
NodeInputsOf == NodeInputs(hashLeaf(arg.nonce), arg.index, arg.path)

\* C21 (hash domain separation): the leaf hash is taken over 0x00 followed
\* by the nonce, every interior node over 0x01 followed by its two
\* children, so no leaf input and node input start with the same byte.
C21_DomainSeparation ==
    MerkleStageReached =>
        /\ LeafInput = <<0>> \o arg.nonce
        /\ \A k \in 1..Len(NodeInputsOf) :
            /\ NodeInputsOf[k][1] = 1
            /\ Len(NodeInputsOf[k]) = 129
            /\ NodeInputsOf[k][1] # LeafInput[1]

----------------------------------------------------------------------------
(* The order of the checks of ParseResponse (SpecParse). *)

\* the result the first failing check gives, in the order delegation
\* signature, response signature, Merkle root, time window
FirstFailure ==
    CASE ~CertSigValid -> "BadDelegation"
      [] CertSigValid /\ ~RespSigValid -> "BadSignature"
      [] CertSigValid /\ RespSigValid /\ ~RootMatches -> "NonceMismatch"
      [] CertSigValid /\ RespSigValid /\ RootMatches /\ ~MidpointInWindow
            -> "InvalidMidpoint"
      [] OTHER -> "none"

InvalidMidpoint(r) == r.st = "err" /\ r.err = errInvalidMidpoint

\* C22 (verification order): the checks run in the order decode,
\* delegation signature, response signature, Merkle root, time window, and
\* the error returned is that of the first one that fails: a reply with a
\* bad signature gets the signature error, one that fails the Merkle check
\* and the window gets NonceMismatch, and InvalidMidpoint is returned
\* exactly when every earlier check passed and MIDP lies outside
\* [MINT, MAXT]; a reply that passes them all is accepted.
C22_VerificationOrder ==
    MerkleStageReached =>
        /\ FirstFailure \in {"BadDelegation", "BadSignature"} =>
            /\ out.st = "err"
            /\ ~NonceMismatch(out)
            /\ ~InvalidMidpoint(out)
        /\ FirstFailure = "NonceMismatch" <=> NonceMismatch(out)
        /\ FirstFailure = "InvalidMidpoint" <=> InvalidMidpoint(out)
        /\ FirstFailure = "none" <=> out.st = "ok"

----------------------------------------------------------------------------
(* The socket of one FetchRoughtime call (SpecFetch). *)

FetchEnded == pc \in {"returned", "panicked"}

\* how often the operation op has been made on the network
OpCount(op) == Cardinality({k \in 1..Len(net.ops) : net.ops[k] = op})

IsPrefix(s, t) == Len(s) <= Len(t) /\ \A k \in 1..Len(s) : s[k] = t[k]

\* the operations before the close
BeforeClose ==
    IF OpCount("close") > 0 THEN SubSeq(net.ops, 1, Len(net.ops) - 1)
    ELSE net.ops

\* C23 (socket lifecycle): once the socket is bound it is closed on every
\* way out of FetchRoughtime, by a return or by a panic, and not before the
\* call ends, so never before the receive has finished; at most one
\* datagram is sent and at most one receive is attempted; after a failure
\* of the random source, of the send or of the receive nothing follows on
\* the network but the close, and that failure is the error returned.
C23_SocketLifecycle ==
    /\ IsPrefix(BeforeClose, <<"listen", "send", "receive">>)
    /\ OpCount("send") <= 1
    /\ OpCount("receive") <= 1
    /\ OpCount("close") <= 1
    /\ OpCount("close") = 1 => net.ops[Len(net.ops)] = "close" /\ FetchEnded
    /\ (FetchEnded /\ OpCount("listen") = 1) =>
            OpCount("close") = 1 /\ net.sock = "closed"
    /\ ~FetchEnded => net.sock \in {"none", "open"}
    /\ (FetchEnded /\ OpCount("listen") = 0) => net.ops = <<>>
    /\ (pc = "returned" /\ out.st = "err") =>
        /\ out.err = errRandom => net.ops = <<"listen", "close">>
        /\ out.err = errWrite => net.ops = <<"listen", "send", "close">>
        /\ out.err = errRead =>
                net.ops = <<"listen", "send", "receive", "close">>
    /\ (FetchEnded /\ net.ops = <<"listen", "close">>) =>
            pc = "panicked" \/ out = FetchFailed(errRandom)
    /\ (FetchEnded /\ net.ops = <<"listen", "send", "close">>) =>
            out = FetchFailed(errWrite)

\* a call that has sent, received, decoded and returned a time, with the
\* socket closed after the receive
C23_Witness ==
    /\ pc = "returned"
    /\ out.st = "ok"
    /\ net.ops = <<"listen", "send", "receive", "close">>
    /\ net.sock = "closed"

----------------------------------------------------------------------------
(* The nonce of the request FetchRoughtime sends (SpecFetch). *)

\* the NONC field of the datagram handed to WriteTo
SentNonce == SubSeq(net.sent, 17, 80)

\* C24 (fresh nonce): the nonce in the request that is sent is the 64
\* bytes drawn from the random source, unchanged, so calls that draw
\* different values send different nonces and the nonce is not the fixed
\* sequence 0, 1, ..., 63 unless that is what was drawn.
C24_NonceIsRandom ==
    /\ pc \in {"drawn", "encoded", "sent", "received"} => net.req.Nonce = net.rand
    /\ OpCount("send") = 1 =>
        /\ Len(net.sent) = 1024
        /\ SentNonce = net.rand

----------------------------------------------------------------------------
(* The field order of the message schema (SpecRT). *)

\* the tags the encode method of a type passes to the writer, in the order
\* of its calls (src/roughtime.go, lines 46-51, 81-87, 101-106, 118-122,
\* 136-141)
EncodeVisits(type) ==
    CASE type = "Request" -> <<NONC, PAD>>
      [] type = "Response" -> <<SIG, SREP, CERT, INDX>>
      [] type = "SignedResponse" -> <<ROOT, MIDP, RADI>>
      [] type = "Certificate" -> <<SIG, DELE>>
      [] OTHER -> <<MINT, MAXT, PUBK>>

\* the tags the decode method of a type asks the cursor for, in the order
\* of its calls (src/roughtime.go, lines 42-44, 61-79, 95-99, 113-116,
\* 130-134)
DecodeVisits(type) ==
    CASE type = "Request" -> <<NONC>>
      [] type = "Response" -> <<SIG, PATH, SREP, CERT, INDX>>
      [] type = "SignedResponse" -> <<RADI, MIDP, ROOT>>
      [] type = "Certificate" -> <<SIG, DELE>>
      [] OTHER -> <<PUBK, MINT, MAXT>>

\* the field order listed for each type
ListedOrder(type) ==
    CASE type = "Request" -> <<NONC, PAD>>
      [] type = "Response" -> <<SIG, PATH, SREP, CERT, INDX>>
      [] type = "SignedResponse" -> <<RADI, MIDP, ROOT>>
      [] type = "Certificate" -> <<SIG, DELE>>
      [] OTHER -> <<MINT, MAXT, PUBK>>

StrictlyAscending(ts) == \A k \in 1..(Len(ts) - 1) : WLess(ts[k], ts[k + 1])

\* the tags in the header of the encoded frame, in header order
FrameTags == [k \in 1..NumTags |-> TagAt(k - 1)]

\* Encode has panicked (Decode has not been called yet)
EncodePanicked == pc = "panicked" /\ out.st = "none"

\* C25 (schema field order): for each of the five types the listed field
\* order is strictly ascending in the numeric tag values, the encode and
\* the decode method of the type visit the fields in exactly that order,
\* and so encoding a message yields a frame whose header lists these tags.
C25_SchemaFieldOrder ==
    /\ StrictlyAscending(ListedOrder(arg.type))
    /\ EncodeVisits(arg.type) = ListedOrder(arg.type)
    /\ DecodeVisits(arg.type) = ListedOrder(arg.type)
    /\ ~EncodePanicked
    /\ pc = "encoded" => FrameTags = ListedOrder(arg.type)

====
